---- MODULE Spec2Model ----
(***************************************************************************)
(* Health-data harmonization and severe-chronic-disease (SCD)             *)
(* classification of the cdef cohort packages: the per-code predicate,    *)
(* the row-level flag and date, and the patient-level aggregation, as     *)
(* written in cdef_cohort_generation (utils/icd.py, main.py) and in       *)
(* cdef_cohort (services/cohort_service.py).                              *)
(*                                                                         *)
(* A nullable value is a sequence of length 0 (null) or 1 (the value).    *)
(* A string is a sequence of one-character strings.                       *)
(***************************************************************************)
EXTENDS Integers, Sequences, FiniteSets, TLC

\* ---------------------------------------------------------------- bounds
MaxRows == 2
MaxDate == 2
\* The log records a run of the mapping service keeps.
MaxLog == 3

\* ------------------------------------------------------- nullable values
Null == <<>>
Some(v) == <<v>>
Val(x) == x[1]

\* ----------------------------------------------------- three-valued logic
\* A variant of | that propagates null from either side.
Or3Strict(a, b) ==
    IF a = Null \/ b = Null THEN Null
    ELSE Some(Val(a) \/ Val(b))

\* polars `|` on nullable booleans (Kleene): true wins over null.
Or3(a, b) ==
    IF a = Some(TRUE) \/ b = Some(TRUE) THEN Some(TRUE)
    ELSE IF a = Null \/ b = Null THEN Null
    ELSE Some(FALSE)

\* polars `&` on nullable booleans (Kleene): false wins over null.
And3(a, b) ==
    IF a = Some(FALSE) \/ b = Some(FALSE) THEN Some(FALSE)
    ELSE IF a = Null \/ b = Null THEN Null
    ELSE Some(TRUE)

\* ---------------------------------------------------------------- strings
Digits == << "0","1","2","3","4","5","6","7","8","9" >>

UpperLetters ==
    << "A","B","C","D","E","F","G","H","I","J","K","L","M",
       "N","O","P","Q","R","S","T","U","V","W","X","Y","Z" >>

LowerLetters ==
    << "a","b","c","d","e","f","g","h","i","j","k","l","m",
       "n","o","p","q","r","s","t","u","v","w","x","y","z" >>

\* The characters of the model in their byte order.
Ascii == << " ", "-", "/" >> \o Digits \o << ":" >> \o UpperLetters \o LowerLetters

CharSet == { Ascii[i] : i \in DOMAIN Ascii }

Ord == [ c \in CharSet |-> CHOOSE i \in DOMAIN Ascii : Ascii[i] = c ]

IsDigit(c) == \E i \in DOMAIN Digits : Digits[i] = c

IsLower(c) == \E i \in DOMAIN LowerLetters : LowerLetters[i] = c

IsLetter(c) == IsLower(c) \/ \E i \in DOMAIN UpperLetters : UpperLetters[i] = c

UpperChar ==
    [ c \in CharSet |->
        IF IsLower(c) THEN UpperLetters[CHOOSE i \in DOMAIN LowerLetters : LowerLetters[i] = c]
        ELSE c ]

\* Expr.str.to_uppercase
to_uppercase(s) == [ i \in 1..Len(s) |-> UpperChar[s[i]] ]

\* Expr.str.slice(offset, length): at most `length` characters from `offset`.
str_slice(s, offset, length) ==
    IF offset >= Len(s) THEN <<>>
    ELSE SubSeq(s, offset + 1, IF offset + length < Len(s) THEN offset + length ELSE Len(s))

\* Byte-wise lexicographic order of strings: a <= b.
RECURSIVE StrLeq(_, _)
StrLeq(a, b) ==
    IF a = <<>> THEN TRUE
    ELSE IF b = <<>> THEN FALSE
    ELSE IF Ord[Head(a)] < Ord[Head(b)] THEN TRUE
    ELSE IF Ord[Head(a)] > Ord[Head(b)] THEN FALSE
    ELSE StrLeq(Tail(a), Tail(b))

\* ------------------------------------------ nullable column expressions
\* pl.col(c).str.to_uppercase().str.slice(offset, length)
UpperSlice(code, offset, length) ==
    IF code = Null THEN Null
    ELSE Some(str_slice(to_uppercase(Val(code)), offset, length))

\* Expr.is_in(list): null stays null.
is_in(x, list) == IF x = Null THEN Null ELSE Some(Val(x) \in list)

\* Expr >= literal and Expr <= literal: null stays null.
Ge(x, lit) == IF x = Null THEN Null ELSE Some(StrLeq(lit, Val(x)))
Le(x, lit) == IF x = Null THEN Null ELSE Some(StrLeq(Val(x), lit))

\* ------------------------------------------------------------ code lists
icd_prefixes ==
    { <<"C">>, <<"D","6","1">>, <<"D","7","6">>, <<"D","8">>, <<"E","1","0">>, <<"E","2","5">>,
      <<"E","7">>, <<"G","1","2">>, <<"G","3","1">>, <<"G","3","7">>, <<"G","4","0">>, <<"G","6","0">>,
      <<"G","7","0">>, <<"G","7","1">>, <<"G","7","3">>, <<"G","8","0">>, <<"G","8","1">>, <<"G","8","2">>,
      <<"G","9","1">>, <<"G","9","4">>, <<"I","1","2">>, <<"I","2","7">>, <<"I","3">>, <<"I","4">>,
      <<"I","5">>, <<"J","4","4">>, <<"J","8","4">>, <<"K","2","1">>, <<"K","5">>, <<"K","7">>,
      <<"K","9","0">>, <<"M","3">>, <<"N","0">>, <<"N","1","3">>, <<"N","1","8">>, <<"N","1","9">>,
      <<"N","2","5">>, <<"N","2","6">>, <<"N","2","7">>, <<"P","2","7">>, <<"P","5","7">>, <<"P","9","1">>,
      <<"Q","0">>, <<"Q","2">>, <<"Q","3">>, <<"Q","4">>, <<"Q","6">>, <<"Q","7","9">>,
      <<"Q","8","6">>, <<"Q","8","7">>, <<"Q","9">> }

specific_codes ==
    { <<"D","6","1","0">>, <<"D","6","1","3">>, <<"D","6","1","8">>, <<"D","6","1","9">>, <<"D","7","6","2">>, <<"E","7","3","0">>,
      <<"G","3","1","0">>, <<"G","3","1","8">>, <<"G","3","1","9">>, <<"G","7","0","2">>, <<"G","7","1","0">>, <<"G","7","1","1">>,
      <<"G","7","1","2">>, <<"G","7","1","3">>, <<"G","7","3","6">>, <<"G","8","1","1">>, <<"G","8","2","1">>, <<"G","8","2","4">>,
      <<"G","9","4","1">>, <<"J","4","4","8">>, <<"P","9","1","0">>, <<"P","9","1","1">>, <<"P","9","1","2">>, <<"Q","7","9","0">>,
      <<"Q","7","9","2">>, <<"Q","7","9","3">>, <<"Q","8","6","0">> }

scd_codes ==
    { <<"D","5","5">>, <<"D","5","6">>, <<"D","5","7">>, <<"D","5","8">>, <<"D","6","0">>, <<"D","6","1">>,
      <<"D","6","4">>, <<"D","6","6">>, <<"D","6","7">>, <<"D","6","8">>, <<"D","6","9">>, <<"D","7","0">>,
      <<"D","7","1">>, <<"D","7","2">>, <<"D","7","3">>, <<"D","7","6">>, <<"D","8","0">>, <<"D","8","1">>,
      <<"D","8","2">>, <<"D","8","3">>, <<"D","8","4">>, <<"D","8","6">>, <<"D","8","9">>, <<"E","2","2">>,
      <<"E","2","3">>, <<"E","2","4">>, <<"E","2","5">>, <<"E","2","6">>, <<"E","2","7">>, <<"E","3","1">>,
      <<"E","3","4">>, <<"E","7","0">>, <<"E","7","1">>, <<"E","7","2">>, <<"E","7","3">>, <<"E","7","4">>,
      <<"E","7","5">>, <<"E","7","6">>, <<"E","7","7">>, <<"E","7","8">>, <<"E","7","9">>, <<"E","8","0">>,
      <<"E","8","3">>, <<"E","8","4">>, <<"E","8","5">>, <<"E","8","8">>, <<"F","8","4">>, <<"G","1","1">>,
      <<"G","1","2">>, <<"G","1","3">>, <<"G","2","3">>, <<"G","2","4">>, <<"G","2","5">>, <<"G","3","1">>,
      <<"G","3","2">>, <<"G","3","6">>, <<"G","3","7">>, <<"G","4","0">>, <<"G","4","1">>, <<"G","6","0">>,
      <<"G","7","0">>, <<"G","7","1">>, <<"G","7","2">>, <<"G","7","3">>, <<"G","8","0">>, <<"G","8","1">>,
      <<"G","8","2">>, <<"G","8","3">>, <<"G","9","0">>, <<"G","9","1">>, <<"G","9","3">>, <<"I","2","7">>,
      <<"I","4","2">>, <<"I","4","3">>, <<"I","5","0">>, <<"I","6","1">>, <<"I","6","3">>, <<"I","6","9">>,
      <<"I","7","0">>, <<"I","7","1">>, <<"I","7","2">>, <<"I","7","3">>, <<"I","7","4">>, <<"I","7","7">>,
      <<"I","7","8">>, <<"I","7","9">>, <<"J","4","1">>, <<"J","4","2">>, <<"J","4","3">>, <<"J","4","4">>,
      <<"J","4","5">>, <<"J","4","7">>, <<"J","6","0">>, <<"J","6","1">>, <<"J","6","2">>, <<"J","6","3">>,
      <<"J","6","4">>, <<"J","6","5">>, <<"J","6","6">>, <<"J","6","7">>, <<"J","6","8">>, <<"J","6","9">>,
      <<"J","7","0">>, <<"J","8","4">>, <<"J","9","8">>, <<"K","5","0">>, <<"K","5","1">>, <<"K","7","3">>,
      <<"K","7","4">>, <<"K","8","6">>, <<"K","8","7">>, <<"K","9","0">>, <<"M","0","5">>, <<"M","0","6">>,
      <<"M","0","7">>, <<"M","0","8">>, <<"M","0","9">>, <<"M","3","0">>, <<"M","3","1">>, <<"M","3","2">>,
      <<"M","3","3">>, <<"M","3","4">>, <<"M","3","5">>, <<"M","4","0">>, <<"M","4","1">>, <<"M","4","2">>,
      <<"M","4","3">>, <<"M","4","5">>, <<"M","4","6">>, <<"N","0","1">>, <<"N","0","3">>, <<"N","0","4">>,
      <<"N","0","7">>, <<"N","0","8">>, <<"N","1","1">>, <<"N","1","2">>, <<"N","1","3">>, <<"N","1","4">>,
      <<"N","1","5">>, <<"N","1","6">>, <<"N","1","8">>, <<"N","1","9">>, <<"N","2","0">>, <<"N","2","1">>,
      <<"N","2","2">>, <<"N","2","3">>, <<"N","2","5">>, <<"N","2","6">>, <<"N","2","7">>, <<"N","2","8">>,
      <<"N","2","9">>, <<"P","2","7">>, <<"Q","0","1">>, <<"Q","0","2">>, <<"Q","0","3">>, <<"Q","0","4">>,
      <<"Q","0","5">>, <<"Q","0","6">>, <<"Q","0","7">>, <<"Q","2","0">>, <<"Q","2","1">>, <<"Q","2","2">>,
      <<"Q","2","3">>, <<"Q","2","4">>, <<"Q","2","5">>, <<"Q","2","6">>, <<"Q","2","7">>, <<"Q","2","8">>,
      <<"Q","3","0">>, <<"Q","3","1">>, <<"Q","3","2">>, <<"Q","3","3">>, <<"Q","3","4">>, <<"Q","3","5">>,
      <<"Q","3","6">>, <<"Q","3","7">>, <<"Q","3","8">>, <<"Q","3","9">>, <<"Q","4","0">>, <<"Q","4","1">>,
      <<"Q","4","2">>, <<"Q","4","3">>, <<"Q","4","4">>, <<"Q","4","5">>, <<"Q","6","0">>, <<"Q","6","1">>,
      <<"Q","6","2">>, <<"Q","6","3">>, <<"Q","6","4">>, <<"Q","6","5">>, <<"Q","6","6">>, <<"Q","6","7">>,
      <<"Q","6","8">>, <<"Q","6","9">>, <<"Q","7","0">>, <<"Q","7","1">>, <<"Q","7","2">>, <<"Q","7","3">>,
      <<"Q","7","4">>, <<"Q","7","5">>, <<"Q","7","6">>, <<"Q","7","7">>, <<"Q","7","8">>, <<"Q","7","9">>,
      <<"Q","8","0">>, <<"Q","8","1">>, <<"Q","8","2">>, <<"Q","8","3">>, <<"Q","8","4">>, <<"Q","8","5">>,
      <<"Q","8","6">>, <<"Q","8","7">>, <<"Q","8","9">>, <<"Q","9","0">>, <<"Q","9","1">>, <<"Q","9","2">>,
      <<"Q","9","3">>, <<"Q","9","5">>, <<"Q","9","6">>, <<"Q","9","7">>, <<"Q","9","8">>, <<"Q","9","9">> }

\* ------------------------------------------- per-column SCD conditions
E74 == <<"E","7","4">>
E84 == <<"E","8","4">>
P941 == <<"P","9","4","1">>
P949 == <<"P","9","4","9">>

\* .str.slice(1, 4).is_in(icd_prefixes)
PrefixTerm(code) == is_in(UpperSlice(code, 1, 4), icd_prefixes)

\* (.str.slice(1, 4) >= "E74") & (.str.slice(1, 4) <= "E84")
BandTerm(code) == And3(Ge(UpperSlice(code, 1, 4), E74), Le(UpperSlice(code, 1, 4), E84))

\* .str.slice(1, 5).is_in(specific_codes)
SpecificTerm(code) == is_in(UpperSlice(code, 1, 5), specific_codes)

\* (.str.slice(1, 5) >= "P941") & (.str.slice(1, 5) <= "P949")
PerinatalTerm(code) == And3(Ge(UpperSlice(code, 1, 5), P941), Le(UpperSlice(code, 1, 5), P949))

\* The four terms of one diagnosis column in apply_scd_algorithm, or-ed.
column_is_scd(code) ==
    Or3(Or3(Or3(PrefixTerm(code), BandTerm(code)), SpecificTerm(code)), PerinatalTerm(code))

\* The four terms of one column (C_ADIAG, C_DIAG) in the legacy
\* apply_scd_algorithm of utils.py, whose icd_prefixes and specific_codes hold
\* the entries of the lists of utils/icd.py.
legacy_column_is_scd(code) ==
    Or3(Or3(Or3(is_in(UpperSlice(code, 1, 4), icd_prefixes),
                And3(Ge(UpperSlice(code, 1, 4), E74), Le(UpperSlice(code, 1, 4), E84))),
            is_in(UpperSlice(code, 1, 5), specific_codes)),
        And3(Ge(UpperSlice(code, 1, 5), P941), Le(UpperSlice(code, 1, 5), P949)))

\* The is_scd expression of apply_scd_algorithm: the eight terms of
\* primary_diagnosis and diagnosis, or-ed from left to right.
row_is_scd(row) ==
    Or3(Or3(Or3(Or3(column_is_scd(row.primary_diagnosis),
                    PrefixTerm(row.diagnosis)),
                BandTerm(row.diagnosis)),
            SpecificTerm(row.diagnosis)),
        PerinatalTerm(row.diagnosis))

\* scd_condition of CohortService._apply_scd_algorithm for one column.
scd_condition(code) ==
    Or3(Or3(Or3(is_in(UpperSlice(code, 1, 4), scd_codes),
                is_in(UpperSlice(code, 1, 5), scd_codes)),
            BandTerm(code)),
        PerinatalTerm(code))

\* The diagnosis columns the service classifies in this model.
diagnosis_cols(row) == << row.primary_diagnosis, row.diagnosis >>

\* pl.any_horizontal over the conditions of the diagnosis columns.
RECURSIVE any_horizontal(_)
any_horizontal(conds) ==
    IF conds = <<>> THEN Some(FALSE)
    ELSE Or3(Head(conds), any_horizontal(Tail(conds)))

is_scd_expr(row) ==
    any_horizontal([ i \in DOMAIN diagnosis_cols(row) |-> scd_condition(diagnosis_cols(row)[i]) ])

\* ------------------------------------------------------- row-level dates
\* A variant that keeps the date whatever the flag.
WhenThenAlways(flag, date) == date

\* pl.when(flag).then(date).otherwise(None): a null flag counts as false.
WhenThen(flag, date) == IF flag = Some(TRUE) THEN date ELSE Null

\* Index of the first row of df in the partition of row i (.first().over(key)).
FirstOver(df, i) ==
    CHOOSE j \in DOMAIN df :
        /\ df[j].patient_id = df[i].patient_id
        /\ \A l \in 1..(j - 1) : df[l].patient_id # df[i].patient_id

\* apply_scd_algorithm: is_scd per row, then first_scd_date as the first
\* value of when(is_scd).then(contact_date) within the patient's rows.
apply_scd_algorithm(df) ==
    [ i \in DOMAIN df |->
        LET first == df[FirstOver(df, i)]
        IN [ patient_id |-> df[i].patient_id,
             is_scd |-> row_is_scd(df[i]),
             first_scd_date |-> WhenThen(row_is_scd(first), first.contact_date) ] ]

\* The row-level frame `result` of CohortService._apply_scd_algorithm.
service_row_level(df) ==
    [ i \in DOMAIN df |->
        [ patient_id |-> df[i].patient_id,
          is_scd |-> is_scd_expr(df[i]),
          first_scd_date |-> WhenThen(is_scd_expr(df[i]), df[i].contact_date) ] ]

\* ------------------------------------------------- patient-level aggregation
\* Expr.max() of a nullable boolean column: nulls ignored, null if all null.
RECURSIVE agg_max(_)
agg_max(col) ==
    IF col = <<>> THEN Null
    ELSE LET rest == agg_max(Tail(col))
         IN IF Head(col) = Null THEN rest
            ELSE IF rest = Null THEN Head(col)
            ELSE Some(Val(Head(col)) \/ Val(rest))

\* A variant that adds the dates up instead of taking the least.
RECURSIVE agg_sum(_)
agg_sum(col) ==
    IF col = <<>> THEN Null
    ELSE LET rest == agg_sum(Tail(col))
         IN IF Head(col) = Null THEN rest
            ELSE IF rest = Null THEN Head(col)
            ELSE Some(Val(Head(col)) + Val(rest))

\* Expr.min() of a nullable date column: nulls ignored, null if all null.
RECURSIVE agg_min(_)
agg_min(col) ==
    IF col = <<>> THEN Null
    ELSE LET rest == agg_min(Tail(col))
         IN IF Head(col) = Null THEN rest
            ELSE IF rest = Null THEN Head(col)
            ELSE IF Val(Head(col)) <= Val(rest) THEN Head(col) ELSE rest

\* The values of one column over the rows of df whose id_col holds key, in row order.
RECURSIVE GroupColumn(_, _, _, _)
GroupColumn(df, id_col, key, field) ==
    IF df = <<>> THEN <<>>
    ELSE IF Head(df)[id_col] = key
         THEN <<Head(df)[field]>> \o GroupColumn(Tail(df), id_col, key, field)
         ELSE GroupColumn(Tail(df), id_col, key, field)

GroupKeys(df, id_col) == { df[i][id_col] : i \in DOMAIN df }

\* df.group_by(id_col).agg(is_scd.max(), first_scd_date.min()): one row per
\* key of df, a null key included; the order of the groups is not specified.
group_by_agg(df, id_col) ==
    { (id_col :> k) @@
      [ is_scd |-> agg_max(GroupColumn(df, id_col, k, "is_scd")),
        first_scd_date |-> agg_min(GroupColumn(df, id_col, k, "first_scd_date")) ] :
        k \in GroupKeys(df, id_col) }

\* ================================================================ state
VARIABLES
    impl,         \* which package runs: "generation" (main.py) or "service" (cohort_service.py)
    pc,           \* position in identify_severe_chronic_disease
    base,         \* the contact rows before any join fan-out
    health_data,  \* the harmonized, combined contact frame
    scd_data,     \* the row-level frame with is_scd and first_scd_date
    result,       \* the patient-level frame
    lpr2,         \* builder: the integrated LPR2 contacts, keyed by PNR
    lpr3,         \* builder: the integrated LPR3 contacts, keyed by CPR
    lpr2_scd,     \* builder: the SCD result of the LPR2 contacts
    lpr3_scd,     \* builder: the SCD result of the LPR3 contacts
    final_scd_data, \* builder: the result of the final aggregation
    date_col,     \* dates: a column of date strings
    parsed        \* dates: the column parsed by parse_dates

pipeline_vars == << base, health_data, scd_data, result >>

builder_vars == << lpr2, lpr3, lpr2_scd, lpr3_scd, final_scd_data >>

dates_vars == << date_col, parsed >>

\* A frame that has not been computed: no columns, no rows, no error.
NoFrame == [ columns |-> {}, rows |-> <<>>, error |-> "" ]

VARIABLES
    lpr2_harmonized,    \* harmonizer: the harmonized LPR2 frame
    lpr3_harmonized    \* harmonizer: the harmonized LPR3 frame

harmonize_vars == << lpr2_harmonized, lpr3_harmonized >>

\* The state of these variables in the runs that do not use them.
HarmonizeIdle ==
    /\ lpr2_harmonized = NoFrame
    /\ lpr3_harmonized = NoFrame

VARIABLES
    lpr_adm,    \* integration: the admissions of LPR2 (RECNUM, PNR)
    lpr_diag,    \* integration: the diagnoses of LPR2 (RECNUM, C_DIAG)
    lpr_bes,    \* integration: the visits of LPR2 (RECNUM, D_AMBDTO)
    lpr3_kontakter,    \* integration: the contacts of LPR3 (DW_EK_KONTAKT, CPR)
    lpr3_diagnoser    \* integration: the diagnoses of LPR3 (DW_EK_KONTAKT, diagnosekode)

join_vars == << lpr_adm, lpr_diag, lpr_bes, lpr3_kontakter, lpr3_diagnoser >>

\* The state of these variables in the runs that do not use them.
JoinIdle ==
    /\ lpr_adm = <<>>
    /\ lpr_diag = <<>>
    /\ lpr_bes = <<>>
    /\ lpr3_kontakter = <<>>
    /\ lpr3_diagnoser = <<>>

VARIABLES
    directory,    \* merger: the parquet files of the input directory
    listable,    \* merger: whether the directory of the pattern can be listed
    allowlist,    \* merger: the configured columns_to_keep, null for None
    files,    \* merger: the files glob.glob returned, in its order
    columns_to_keep,    \* merger: the local columns_to_keep of process_register_data
    scanned,    \* merger: the stems of the files read so far
    data_frames,    \* merger: the frames of the files processed so far
    data,    \* merger: the concatenated frame
    output_file,    \* merger: the content of the output file, null when there is none
    error,    \* merger: the error process_register_data raised, "" when none
    log    \* merger: the records the logger received, in order

register_vars == << directory, listable, allowlist, files, columns_to_keep, scanned, data_frames, data, output_file, error, log >>

\* The state of these variables in the runs that do not use them.
RegisterIdle ==
    /\ directory = {}
    /\ listable = TRUE
    /\ allowlist = Null
    /\ files = <<>>
    /\ columns_to_keep = Null
    /\ scanned = {}
    /\ data_frames = <<>>
    /\ data = NoFrame
    /\ output_file = Null
    /\ error = ""
    /\ log = <<>>

\* No call of the mapping service yet.
NoCall == [ call |-> "", name |-> "", outcome |-> "" ]

VARIABLES
    mapping_files,    \* mapping service: the names whose JSON file is in the mapping directory
    config_optional,    \* mapping service: the mappings the configuration marks optional
    isced_map,    \* mapping service: _isced_map, null for None
    mappings,    \* mapping service: _mappings, the loaded mappings by name
    last_call,    \* mapping service: the last call, its mapping and how it ended
    mapping_log    \* mapping service: the records the logger received

mapping_vars == << mapping_files, config_optional, isced_map, mappings, last_call, mapping_log >>

\* The state of these variables in the runs that do not use them.
MappingIdle ==
    /\ mapping_files = {}
    /\ config_optional = {}
    /\ isced_map = Null
    /\ mappings = <<>>
    /\ last_call = NoCall
    /\ mapping_log = <<>>

VARIABLES
    faults,    \* main: the calls that fail in this run
    step,    \* main: the index of the next call of the try body
    pending,    \* main: the exception on its way to the caller, null when none
    tables_saved,    \* main: the table sets saved
    final_cohort,    \* main: whether final_cohort.parquet was written
    services_shut_down,    \* main: whether container.shutdown() has run
    outcome,    \* main: how main ended, "" while it runs
    main_log    \* main: the records the logger received

main_vars == << faults, step, pending, tables_saved, final_cohort, services_shut_down, outcome, main_log >>

\* The state of these variables in the runs that do not use them.
MainIdle ==
    /\ faults = {}
    /\ step = 1
    /\ pending = Null
    /\ tables_saved = 0
    /\ final_cohort = FALSE
    /\ services_shut_down = FALSE
    /\ outcome = ""
    /\ main_log = <<>>

VARIABLES
    isced_mapping_file,    \* isced: the content of the JSON mapping file
    isced_file,    \* isced: the content of the ISCED parquet file, null when there is none
    isced_data    \* isced: what read_isced_data returned, null before the call

isced_vars == << isced_mapping_file, isced_file, isced_data >>

\* The state of these variables in the runs that do not use them.
IscedIdle ==
    /\ isced_mapping_file = <<>>
    /\ isced_file = Null
    /\ isced_data = Null

vars == << impl, pc, pipeline_vars, builder_vars, dates_vars, harmonize_vars, join_vars, register_vars, mapping_vars, main_vars, isced_vars >>

Impls == { "generation", "service" }

\* A frame with a schema: its column names and its rows, each row a
\* function from the column names to values.
EmptyFrame == [ columns |-> {}, rows |-> {} ]

\* ------------------------------------------------------------ input data
Dates == 1..MaxDate
NullableDates == { Null } \cup { Some(d) : d \in Dates }
PatientIds == { Null, Some("P1"), Some("P2") }

DC501 == <<"D","C","5","0","1">>
Z000 == <<"Z","0","0","0">>
E800 == <<"E","8","0","0">>
DZ000 == <<"D","Z","0","0","0">>
DD61 == <<"D","D","6","1">>
DE750 == <<"D","E","7","5","0">>

Contact(p, primary, diag, d) ==
    [ patient_id |-> p, primary_diagnosis |-> primary, diagnosis |-> diag, contact_date |-> d ]

\* (primary_diagnosis, diagnosis) of the contacts of the aggregation runs:
\* a matching code, a non-matching code beside a null, two non-matching codes.
DiagPairs ==
    { << Some(DE750), Null >>, << Some(DZ000), Null >>, << Some(DZ000), Some(DZ000) >> }

ContactRows ==
    { Contact(p, dp[1], dp[2], d) : p \in PatientIds, dp \in DiagPairs, d \in NullableDates }

\* The contacts of the fan-out runs.
FanOutRows ==
    { Contact(p, dp[1], dp[2], d) :
        p \in PatientIds \ { Null },
        dp \in { << Some(DE750), Null >>, << Some(DZ000), Some(DZ000) >> },
        d \in NullableDates }

Frames(rows) == UNION { [ 1..n -> rows ] : n \in 0..MaxRows }

\* The diagnosis codes of the classification runs:
\*   "DC501", "Z000", "DZ000", "E800", "DE740", "DE840", "DE84", "DE800"
\*   "DE750", "DC", "DD61", "DD610", "dd610", "DE73", "DE730", "DE85"
\*   "DP941", "DP9495", "DQ86", "DQ860", "D", ""
CodeSet ==
    { <<"D","C","5","0","1">>, <<"Z","0","0","0">>, <<"D","Z","0","0","0">>,
      <<"E","8","0","0">>, <<"D","E","7","4","0">>, <<"D","E","8","4","0">>,
      <<"D","E","8","4">>, <<"D","E","8","0","0">>, <<"D","E","7","5","0">>,
      <<"D","C">>, <<"D","D","6","1">>, <<"D","D","6","1","0">>,
      <<"d","d","6","1","0">>, <<"D","E","7","3">>, <<"D","E","7","3","0">>,
      <<"D","E","8","5">>, <<"D","P","9","4","1">>, <<"D","P","9","4","9","5">>,
      <<"D","Q","8","6">>, <<"D","Q","8","6","0">>, <<"D">>,
      <<>> }

\* One contact per code, with a null, a non-matching and a matching secondary diagnosis.
CodeRows ==
    { Contact(Some("P1"), primary, diag, d) :
        primary \in { Null } \cup { Some(c) : c \in CodeSet },
        diag \in { Null, Some(DZ000), Some(DD61) },
        d \in NullableDates }

\* End-to-end scenario 1: contacts 'DC501' on the later day and 'Z000' on the earlier day.
Scenario1 ==
    << Contact(Some("P1"), Some(DC501), Null, Some(2)),
       Contact(Some("P1"), Some(Z000), Null, Some(1)) >>

\* End-to-end scenario 2: the only diagnosis is 'E800', the contact date is null.
Scenario2 == << Contact(Some("P1"), Some(E800), Null, Null) >>

\* End-to-end scenario 3: a legacy and a current contact on consecutive days, none qualifying.
Scenario3 ==
    << Contact(Some("P1"), Some(DZ000), Null, Some(1)),
       Contact(Some("P1"), Some(DZ000), Null, Some(2)) >>

CodeFrames == { << r >> : r \in CodeRows } \cup { Scenario1, Scenario2, Scenario3 }

\* --------------------------------------------------------------- actions
InitWith(frames) ==
    /\ impl \in Impls
    /\ pc = "input"
    /\ base \in frames
    /\ health_data = base
    /\ scd_data = <<>>
    /\ result = {}
    /\ lpr2 = <<>>
    /\ lpr3 = <<>>
    /\ lpr2_scd = EmptyFrame
    /\ lpr3_scd = EmptyFrame
    /\ final_scd_data = EmptyFrame
    /\ date_col = <<>>
    /\ parsed = <<>>
    /\ HarmonizeIdle
    /\ JoinIdle
    /\ RegisterIdle
    /\ MappingIdle
    /\ MainIdle
    /\ IscedIdle

Init == InitWith(Frames(ContactRows))

InitCodes == InitWith(CodeFrames)

InitFanOut == InitWith(Frames(FanOutRows))

\* Row i of df repeated in place, as a one-to-many left join emits it.
DuplicateRow(df, i) == SubSeq(df, 1, i) \o SubSeq(df, i, Len(df))

\* A contact matched by one more diagnosis/visit row in the left joins.
FanOut(i) ==
    /\ pc = "input"
    /\ i \in DOMAIN health_data
    /\ Len(health_data) <= MaxRows
    /\ health_data' = DuplicateRow(health_data, i)
    /\ UNCHANGED << impl, pc, base, scd_data, result, builder_vars, dates_vars, harmonize_vars, join_vars, register_vars, mapping_vars, main_vars, isced_vars >>

\* main.py step 6: scd_data = apply_scd_algorithm(health_data)
ApplyScdAlgorithm ==
    /\ pc = "input"
    /\ impl = "generation"
    /\ scd_data' = apply_scd_algorithm(health_data)
    /\ pc' = "classified"
    /\ UNCHANGED << impl, base, health_data, result, builder_vars, dates_vars, harmonize_vars, join_vars, register_vars, mapping_vars, main_vars, isced_vars >>

\* main.py step 7: scd_data.group_by("patient_id").agg(...)
AggregateToPatientLevel ==
    /\ pc = "classified"
    /\ impl = "generation"
    /\ result' = group_by_agg(scd_data, "patient_id")
    /\ pc' = "done"
    /\ UNCHANGED << impl, base, health_data, scd_data, builder_vars, dates_vars, harmonize_vars, join_vars, register_vars, mapping_vars, main_vars, isced_vars >>

\* CohortService._apply_scd_algorithm: row-level columns, then group_by(id_col).
ServiceApplyScd ==
    /\ pc = "input"
    /\ impl = "service"
    /\ scd_data' = service_row_level(health_data)
    /\ result' = group_by_agg(service_row_level(health_data), "patient_id")
    /\ pc' = "done"
    /\ UNCHANGED << impl, base, health_data, builder_vars, dates_vars, harmonize_vars, join_vars, register_vars, mapping_vars, main_vars, isced_vars >>

Next ==
    \/ ApplyScdAlgorithm
    \/ AggregateToPatientLevel
    \/ ServiceApplyScd

NextFanOut ==
    \/ \E i \in 1..(MaxRows + 1) : FanOut(i)
    \/ Next

\* Frames of up to MaxRows contacts over patients, diagnoses and dates.
Spec == Init /\ [][Next]_vars

\* One contact per diagnosis code, and the end-to-end scenarios.
SpecCodes == InitCodes /\ [][Next]_vars

\* Frames whose contacts are fanned out by the joins before classification.
SpecFanOut == InitFanOut /\ [][NextFanOut]_vars

\* ------------------------------------- cdef_cohort_builder: two call sites
\* The contacts of one register generation in the builder runs.
BuilderRows ==
    { Contact(p, dp[1], dp[2], d) :
        p \in PatientIds \ { Null }, dp \in DiagPairs, d \in NullableDates }

\* The patient-level SCD frame of one generation, keyed by patient_id_column:
\* the row-level flag and date, aggregated per patient.
apply_scd_algorithm_single(df, patient_id_column) ==
    [ columns |-> { patient_id_column, "is_scd", "first_scd_date" },
      rows |-> { (patient_id_column :> r.patient_id) @@
                 [ is_scd |-> r.is_scd, first_scd_date |-> r.first_scd_date ] :
                   r \in group_by_agg(service_row_level(df), "patient_id") } ]

\* frame.with_columns(pl.col(old).alias(new)): the column new is added, old stays.
with_columns_alias(frame, old, new) ==
    [ columns |-> frame.columns \cup { new },
      rows |-> { (new :> r[old]) @@ r : r \in frame.rows } ]

\* The rows of a frame in any order.
Orderings(rows) ==
    { s \in [ 1..Cardinality(rows) -> rows ] : \A r \in rows : \E i \in DOMAIN s : s[i] = r }

InitBuilder ==
    /\ impl = "builder"
    /\ pc = "b_input"
    /\ base = <<>>
    /\ health_data = <<>>
    /\ scd_data = <<>>
    /\ result = {}
    /\ lpr2 \in Frames(BuilderRows)
    /\ lpr3 \in Frames(BuilderRows)
    /\ Len(lpr2) + Len(lpr3) <= MaxRows + 1
    /\ lpr2_scd = EmptyFrame
    /\ lpr3_scd = EmptyFrame
    /\ final_scd_data = EmptyFrame
    /\ date_col = <<>>
    /\ parsed = <<>>
    /\ HarmonizeIdle
    /\ JoinIdle
    /\ RegisterIdle
    /\ MappingIdle
    /\ MainIdle
    /\ IscedIdle

\* lpr2_scd = apply_scd_algorithm_single(lpr2, ..., patient_id_column="PNR")
ApplyScdLpr2 ==
    /\ pc = "b_input"
    /\ lpr2_scd' = apply_scd_algorithm_single(lpr2, "PNR")
    /\ pc' = "b_lpr2"
    /\ UNCHANGED << impl, pipeline_vars, lpr2, lpr3, lpr3_scd, final_scd_data, dates_vars, harmonize_vars, join_vars, register_vars, mapping_vars, main_vars, isced_vars >>

\* lpr3_scd = apply_scd_algorithm_single(lpr3, ..., patient_id_column="CPR")
ApplyScdLpr3 ==
    /\ pc = "b_lpr2"
    /\ lpr3_scd' = apply_scd_algorithm_single(lpr3, "CPR")
    /\ pc' = "b_lpr3"
    /\ UNCHANGED << impl, pipeline_vars, lpr2, lpr3, lpr2_scd, final_scd_data, dates_vars, harmonize_vars, join_vars, register_vars, mapping_vars, main_vars, isced_vars >>

\* lpr3_scd = lpr3_scd.with_columns(pl.col("CPR").alias("PNR"))
RenameCprToPnr ==
    /\ pc = "b_lpr3"
    /\ lpr3_scd' = with_columns_alias(lpr3_scd, "CPR", "PNR")
    /\ pc' = "b_renamed"
    /\ UNCHANGED << impl, pipeline_vars, lpr2, lpr3, lpr2_scd, final_scd_data, dates_vars, harmonize_vars, join_vars, register_vars, mapping_vars, main_vars, isced_vars >>

\* pl.concat([lpr2_scd, lpr3_scd]) stacks frames of one schema and raises on
\* frames whose columns differ; then group_by("PNR").agg(max, min).
CombineAndAggregate ==
    /\ pc = "b_renamed"
    /\ IF lpr2_scd.columns = lpr3_scd.columns
       THEN /\ \E s2 \in Orderings(lpr2_scd.rows), s3 \in Orderings(lpr3_scd.rows) :
                  final_scd_data' = [ columns |-> { "PNR", "is_scd", "first_scd_date" },
                                      rows |-> group_by_agg(s2 \o s3, "PNR") ]
            /\ pc' = "b_done"
       ELSE /\ final_scd_data' = final_scd_data
            /\ pc' = "b_failed"
    /\ UNCHANGED << impl, pipeline_vars, lpr2, lpr3, lpr2_scd, lpr3_scd, dates_vars, harmonize_vars, join_vars, register_vars, mapping_vars, main_vars, isced_vars >>

NextBuilder ==
    \/ ApplyScdLpr2
    \/ ApplyScdLpr3
    \/ RenameCprToPnr
    \/ CombineAndAggregate

\* identify_severe_chronic_disease of cdef_cohort_builder over two generations.
SpecBuilder == InitBuilder /\ [][NextBuilder]_vars

\* ------------------------------------------------------------ parse_dates
\* A strptime format is a sequence of items: a conversion ("%Y", "%m", "%d",
\* "%e", "%H", "%M", "%S", "%y", "%b", "%a") or a literal character.
FmtYmdSlash == << "%Y", "/", "%m", "/", "%d" >>
FmtDmySlash == << "%d", "/", "%m", "/", "%Y" >>
FmtMdySlash == << "%m", "/", "%d", "/", "%Y" >>
FmtYmdHmsSlash == << "%Y", "/", "%m", "/", "%d", " ", "%H", ":", "%M", ":", "%S" >>
FmtMdyShortSlash == << "%m", "/", "%d", "/", "%y" >>
FmtDdMonYyyy == << "%d", "%b", "%Y" >>
FmtYmdDash == << "%Y", "-", "%m", "-", "%d" >>
FmtDmyDash == << "%d", "-", "%m", "-", "%Y" >>
FmtMdyDash == << "%m", "-", "%d", "-", "%Y" >>
FmtYmdHmsDash == << "%Y", "-", "%m", "-", "%d", " ", "%H", ":", "%M", ":", "%S" >>
\* "%c", the locale's date and time: "%a %b %e %H:%M:%S %Y"
FmtLocale ==
    << "%a", " ", "%b", " ", "%e", " ", "%H", ":", "%M", ":", "%S", " ", "%Y" >>

\* A variant with the month-first '/' format ahead of the day-first one.
date_formats_month_first ==
    << FmtYmdSlash, FmtMdySlash, FmtDmySlash, FmtYmdHmsSlash, FmtMdyShortSlash, FmtDdMonYyyy,
       FmtYmdDash, FmtDmyDash, FmtMdyDash, FmtYmdHmsDash, FmtLocale >>

\* The formats in the order of the arguments of pl.coalesce.
date_formats ==
    << FmtYmdSlash, FmtDmySlash, FmtMdySlash, FmtYmdHmsSlash, FmtMdyShortSlash, FmtDdMonYyyy,
       FmtYmdDash, FmtDmyDash, FmtMdyDash, FmtYmdHmsDash, FmtLocale >>

NumericItems == { "%Y", "%m", "%d", "%e", "%H", "%M", "%S", "%y" }

\* The most digits a numeric conversion takes.
ItemWidth(item) == IF item = "%Y" THEN 4 ELSE 2

\* The values a numeric conversion accepts.
ItemInRange(item, v) ==
    CASE item = "%m" -> v >= 1 /\ v <= 12
      [] item \in { "%d", "%e" } -> v >= 1 /\ v <= 31
      [] item = "%H" -> v <= 23
      [] item = "%M" -> v <= 59
      [] item = "%S" -> v <= 60
      [] OTHER -> TRUE

MonthNames ==
    << <<"J","A","N">>, <<"F","E","B">>, <<"M","A","R">>, <<"A","P","R">>,
       <<"M","A","Y">>, <<"J","U","N">>, <<"J","U","L">>, <<"A","U","G">>,
       <<"S","E","P">>, <<"O","C","T">>, <<"N","O","V">>, <<"D","E","C">> >>

\* Week days from Saturday, the order of Zeller's congruence.
WeekdayNames ==
    << <<"S","A","T">>, <<"S","U","N">>, <<"M","O","N">>, <<"T","U","E">>,
       <<"W","E","D">>, <<"T","H","U">>, <<"F","R","I">> >>

NameIndex(names, s) ==
    IF \E i \in DOMAIN names : names[i] = s
    THEN Some(CHOOSE i \in DOMAIN names : names[i] = s)
    ELSE Null

RECURSIVE TrimStart(_)
TrimStart(s) == IF s # <<>> /\ Head(s) = " " THEN TrimStart(Tail(s)) ELSE s

\* The number of leading digits of s, at most maxw.
RECURSIVE LeadingDigits(_, _)
LeadingDigits(s, maxw) ==
    IF maxw = 0 \/ s = <<>> THEN 0
    ELSE IF ~IsDigit(Head(s)) THEN 0
    ELSE 1 + LeadingDigits(Tail(s), maxw - 1)

DigitVal(c) == (CHOOSE i \in DOMAIN Digits : Digits[i] = c) - 1

RECURSIVE NumVal(_)
NumVal(s) ==
    IF s = <<>> THEN 0
    ELSE 10 * NumVal(SubSeq(s, 1, Len(s) - 1)) + DigitVal(s[Len(s)])

Rest(s, n) == SubSeq(s, n + 1, Len(s))

NoFields == [ year |-> Null, month |-> Null, day |-> Null, weekday |-> Null ]

\* The field a numeric conversion sets; the time of day is read and dropped.
SetField(f, item, v) ==
    CASE item = "%Y" -> [ f EXCEPT !.year = Some(v) ]
      [] item = "%y" -> [ f EXCEPT !.year = Some(IF v < 70 THEN 2000 + v ELSE 1900 + v) ]
      [] item = "%m" -> [ f EXCEPT !.month = Some(v) ]
      [] item \in { "%d", "%e" } -> [ f EXCEPT !.day = Some(v) ]
      [] OTHER -> f

\* The parse of s by the items of fmt from left to right: the fields read,
\* or null when an item fails or input is left over.
RECURSIVE ParseItems(_, _, _)
ParseItems(fmt, s, f) ==
    IF fmt = <<>> THEN (IF s = <<>> THEN Some(f) ELSE Null)
    ELSE IF Head(fmt) \in NumericItems THEN
        LET t == TrimStart(s)
            n == LeadingDigits(t, ItemWidth(Head(fmt)))
        IN IF n = 0 THEN Null
           ELSE IF ~ItemInRange(Head(fmt), NumVal(SubSeq(t, 1, n))) THEN Null
           ELSE ParseItems(Tail(fmt), Rest(t, n), SetField(f, Head(fmt), NumVal(SubSeq(t, 1, n))))
    ELSE IF Head(fmt) = "%b" THEN
        IF Len(s) < 3 \/ NameIndex(MonthNames, to_uppercase(SubSeq(s, 1, 3))) = Null THEN Null
        ELSE ParseItems(Tail(fmt), Rest(s, 3),
                        [ f EXCEPT !.month = NameIndex(MonthNames, to_uppercase(SubSeq(s, 1, 3))) ])
    ELSE IF Head(fmt) = "%a" THEN
        IF Len(s) < 3 \/ NameIndex(WeekdayNames, to_uppercase(SubSeq(s, 1, 3))) = Null THEN Null
        ELSE ParseItems(Tail(fmt), Rest(s, 3),
                        [ f EXCEPT !.weekday = NameIndex(WeekdayNames, to_uppercase(SubSeq(s, 1, 3))) ])
    ELSE IF Head(fmt) = " " THEN ParseItems(Tail(fmt), TrimStart(s), f)
    ELSE IF s # <<>> /\ Head(s) = Head(fmt) THEN ParseItems(Tail(fmt), Tail(s), f)
    ELSE Null

IsLeapYear(y) == (y % 4 = 0 /\ y % 100 # 0) \/ y % 400 = 0

DaysInMonth(y, m) ==
    IF m = 2 THEN (IF IsLeapYear(y) THEN 29 ELSE 28)
    ELSE IF m \in { 4, 6, 9, 11 } THEN 30 ELSE 31

\* Zeller's congruence: 1 for Saturday up to 7 for Friday.
DayOfWeek(y, m, d) ==
    LET mm == IF m < 3 THEN m + 12 ELSE m
        yy == IF m < 3 THEN y - 1 ELSE y
    IN ((d + ((13 * (mm + 1)) \div 5) + (yy % 100) + ((yy % 100) \div 4)
           + ((yy \div 100) \div 4) + 5 * (yy \div 100)) % 7) + 1

\* A variant that builds the date without checking the day against the
\* month's length or the weekday against the date.
ToNaiveDateUnchecked(f) ==
    IF f.year = Null \/ f.month = Null \/ f.day = Null THEN Null
    ELSE Some([ year |-> Val(f.year), month |-> Val(f.month), day |-> Val(f.day) ])

\* The calendar date of the fields read, null when they name no date or
\* when a week day was read that is not the date's.
ToNaiveDate(f) ==
    IF f.year = Null \/ f.month = Null \/ f.day = Null THEN Null
    ELSE IF Val(f.day) > DaysInMonth(Val(f.year), Val(f.month)) THEN Null
    ELSE IF f.weekday # Null /\ Val(f.weekday) # DayOfWeek(Val(f.year), Val(f.month), Val(f.day))
         THEN Null
    ELSE Some([ year |-> Val(f.year), month |-> Val(f.month), day |-> Val(f.day) ])

\* pl.col(c).str.strptime(pl.Date, fmt, strict=False): null where the value
\* is null or does not parse.
strptime(value, fmt) ==
    IF value = Null THEN Null
    ELSE IF ParseItems(fmt, Val(value), NoFields) = Null THEN Null
    ELSE ToNaiveDate(Val(ParseItems(fmt, Val(value), NoFields)))

\* pl.coalesce: the first non-null of the expressions.
RECURSIVE coalesce(_)
coalesce(exprs) ==
    IF exprs = <<>> THEN Null
    ELSE IF Head(exprs) # Null THEN Head(exprs)
    ELSE coalesce(Tail(exprs))

parse_dates(value) ==
    coalesce([ i \in DOMAIN date_formats |-> strptime(value, date_formats[i]) ])

\* The date strings of the parsing runs:
\*   "2020/01/02"
\*   "13/02/2020"
\*   "01/02/2020"
\*   "02/13/2020"
\*   "1/2/2020"
\*   "2020/01/02 10:20:30"
\*   "01/02/20"
\*   "12/25/99"
\*   "01JAN2015"
\*   "2015-01-02"
\*   "13-02-2015"
\*   "02-13-2015"
\*   "2015-01-02 10:20:30"
\*   "Thu Jan  1 00:00:00 2015"
\*   "Fri Jan  1 00:00:00 2015"
\*   "31/02/2020"
\*   "N/A"
\*   ""
DateStrings ==
    { <<"2","0","2","0","/","0","1","/","0","2">>,
      <<"1","3","/","0","2","/","2","0","2","0">>,
      <<"0","1","/","0","2","/","2","0","2","0">>,
      <<"0","2","/","1","3","/","2","0","2","0">>,
      <<"1","/","2","/","2","0","2","0">>,
      <<"2","0","2","0","/","0","1","/","0","2"," ","1","0",":","2","0",":","3","0">>,
      <<"0","1","/","0","2","/","2","0">>,
      <<"1","2","/","2","5","/","9","9">>,
      <<"0","1","J","A","N","2","0","1","5">>,
      <<"2","0","1","5","-","0","1","-","0","2">>,
      <<"1","3","-","0","2","-","2","0","1","5">>,
      <<"0","2","-","1","3","-","2","0","1","5">>,
      <<"2","0","1","5","-","0","1","-","0","2"," ","1","0",":","2","0",":","3","0">>,
      <<"T","h","u"," ","J","a","n"," "," ","1"," ","0","0",":","0","0",":","0","0"," ","2","0","1","5">>,
      <<"F","r","i"," ","J","a","n"," "," ","1"," ","0","0",":","0","0",":","0","0"," ","2","0","1","5">>,
      <<"3","1","/","0","2","/","2","0","2","0">>,
      <<"N","/","A">>,
      <<>> }

DateValues == { Null } \cup { Some(s) : s \in DateStrings }

InitDates ==
    /\ impl = "dates"
    /\ pc = "d_input"
    /\ base = <<>>
    /\ health_data = <<>>
    /\ scd_data = <<>>
    /\ result = {}
    /\ lpr2 = <<>>
    /\ lpr3 = <<>>
    /\ lpr2_scd = EmptyFrame
    /\ lpr3_scd = EmptyFrame
    /\ final_scd_data = EmptyFrame
    /\ date_col \in [ 1..MaxRows -> DateValues ]
    /\ parsed = <<>>
    /\ HarmonizeIdle
    /\ JoinIdle
    /\ RegisterIdle
    /\ MappingIdle
    /\ MainIdle
    /\ IscedIdle

\* df.with_columns(parse_dates(col)): every value of the column parsed.
ParseDates ==
    /\ pc = "d_input"
    /\ parsed' = [ i \in DOMAIN date_col |-> parse_dates(date_col[i]) ]
    /\ pc' = "d_done"
    /\ UNCHANGED << impl, pipeline_vars, builder_vars, date_col, harmonize_vars, join_vars, register_vars, mapping_vars, main_vars, isced_vars >>

NextDates == ParseDates

\* One column of date strings parsed by parse_dates.
SpecDates == InitDates /\ [][NextDates]_vars

\* ------------------------------------------------- harmonize_health_data
\* column_mappings in the order of the dict: << source name, canonical name >>.
column_mappings ==
    << << "PNR", "patient_id" >>,
       << "CPR", "patient_id" >>,
       << "C_ADIAG", "primary_diagnosis" >>,
       << "C_DIAG", "diagnosis" >>,
       << "diagnosekode", "diagnosis" >>,
       << "aktionsdiagnose", "primary_diagnosis" >>,
       << "D_INDDTO", "contact_date" >>,
       << "D_AMBDTO", "contact_date" >>,
       << "dato_start", "contact_date" >>,
       << "C_DIAGTYPE", "diagnosis_type" >>,
       << "diagnosetype", "diagnosis_type" >>,
       << "RECNUM", "record_id" >>,
       << "DW_EK_KONTAKT", "contact_id" >> >>

essential_columns ==
    { "patient_id", "primary_diagnosis", "diagnosis", "contact_date",
      "diagnosis_type", "record_id", "contact_id" }

\* What renaming a column to a name the frame already has can do: polars
\* raises a duplicate-column error, or the renamed column takes the place of
\* the one that held the name, depending on the version and the plan.
DuplicateOutcomes == { "raise", "overwrite" }

\* A frame that an operation failed to produce.
FailedFrame(err) == [ columns |-> {}, rows |-> <<>>, error |-> err ]

\* df.rename({old: new})
rename(df, old, new, on_dup) ==
    IF df.error # "" THEN df
    ELSE IF new \in df.columns /\ on_dup = "raise" THEN FailedFrame("DuplicateError")
    ELSE LET cols == (df.columns \ { old }) \cup { new }
         IN [ columns |-> cols,
              rows |-> [ i \in DOMAIN df.rows |->
                           [ c \in cols |-> IF c = new THEN df.rows[i][old] ELSE df.rows[i][c] ] ],
              error |-> "" ]

\* The loop of rename_and_select over the mappings from the k-th on: a
\* source name the frame has is renamed to its canonical name.
RECURSIVE rename_loop(_, _, _)
rename_loop(df, k, on_dup) ==
    IF k > Len(column_mappings) \/ df.error # "" THEN df
    ELSE IF column_mappings[k][1] \in df.columns
         THEN rename_loop(rename(df, column_mappings[k][1], column_mappings[k][2], on_dup),
                          k + 1, on_dup)
         ELSE rename_loop(df, k + 1, on_dup)

\* df.select(names)
select(df, names) ==
    IF df.error # "" THEN df
    ELSE [ columns |-> names,
           rows |-> [ i \in DOMAIN df.rows |-> [ c \in names |-> df.rows[i][c] ] ],
           error |-> "" ]

\* A variant that renames and keeps every column.
rename_only(df, on_dup) == rename_loop(df, 1, on_dup)

\* rename_and_select: rename, then keep the essential columns that exist.
rename_and_select(df, on_dup) ==
    select(rename_loop(df, 1, on_dup),
           essential_columns \cap rename_loop(df, 1, on_dup).columns)

\* Source columns of the integrated LPR2 frame and of the integrated LPR3
\* frame; each frame has its patient identifier and any of the others.
Lpr2SourceColumns ==
    { "PNR", "C_ADIAG", "C_DIAG", "C_DIAGTYPE", "D_INDDTO", "D_AMBDTO", "RECNUM", "C_TILDIAG" }

Lpr3SourceColumns ==
    { "CPR", "aktionsdiagnose", "diagnosekode", "dato_start", "DW_EK_KONTAKT" }

\* A frame of one row over the given columns; every value names the column
\* it was read from.
SourceFrame(cols) ==
    [ columns |-> cols, rows |-> << [ c \in cols |-> Some(c) ] >>, error |-> "" ]

InitHarmonize ==
    /\ impl = "generation"
    /\ pc = "h_input"
    /\ base = <<>>
    /\ health_data = NoFrame
    /\ scd_data = <<>>
    /\ result = {}
    /\ lpr2 \in { SourceFrame(cols) : cols \in { s \in SUBSET Lpr2SourceColumns : "PNR" \in s } }
    /\ lpr3 \in { SourceFrame(cols) : cols \in { s \in SUBSET Lpr3SourceColumns : "CPR" \in s } }
    /\ lpr2_scd = EmptyFrame
    /\ lpr3_scd = EmptyFrame
    /\ final_scd_data = EmptyFrame
    /\ date_col = <<>>
    /\ parsed = <<>>
    /\ HarmonizeIdle
    /\ JoinIdle
    /\ RegisterIdle
    /\ MappingIdle
    /\ MainIdle
    /\ IscedIdle

\* main.py step 5: lpr2_harmonized, lpr3_harmonized = harmonize_health_data(lpr2, lpr3)
HarmonizeHealthData ==
    /\ pc = "h_input"
    /\ \E on_dup \in DuplicateOutcomes :
          /\ lpr2_harmonized' = rename_and_select(lpr2, on_dup)
          /\ lpr3_harmonized' = rename_and_select(lpr3, on_dup)
    /\ pc' = IF lpr2_harmonized'.error # "" \/ lpr3_harmonized'.error # ""
             THEN "h_failed" ELSE "h_harmonized"
    /\ UNCHANGED << impl, pipeline_vars, builder_vars, dates_vars, join_vars, register_vars, mapping_vars, main_vars, isced_vars >>

\* pl.concat([a, b]), how="vertical": the rows of b under those of a; raises
\* when the two frames do not have the same columns.
concat(a, b) ==
    IF a.columns # b.columns THEN FailedFrame("ShapeError")
    ELSE [ columns |-> a.columns, rows |-> a.rows \o b.rows, error |-> "" ]

\* main.py: health_data = pl.concat([lpr2_harmonized, lpr3_harmonized])
ConcatHealthData ==
    /\ pc = "h_harmonized"
    /\ health_data' = concat(lpr2_harmonized, lpr3_harmonized)
    /\ pc' = IF health_data'.error # "" THEN "h_concat_failed" ELSE "h_combined"
    /\ UNCHANGED << impl, base, scd_data, result, builder_vars, dates_vars, harmonize_vars, join_vars, register_vars, mapping_vars, main_vars, isced_vars >>

NextHarmonize ==
    \/ HarmonizeHealthData
    \/ ConcatHealthData

\* Step 5 of identify_severe_chronic_disease: harmonize both frames, then union them.
SpecHarmonize == InitHarmonize /\ [][NextHarmonize]_vars

\* ------------------------------------------------- register integration
\* The rows of `right` whose key equals that of the left row l; a null key
\* matches nothing.
Matches(l, right, key) ==
    SelectSeq(right, LAMBDA r : l[key] # Null /\ r[key] = l[key])

\* A left row with the other columns of a right row beside it.
Joined(l, r, right_cols) == l @@ [ c \in right_cols |-> r[c] ]

\* A variant that keeps only the left rows that have a match.
RECURSIVE inner_join(_, _, _, _)
inner_join(left, right, key, right_cols) ==
    IF left = <<>> THEN <<>>
    ELSE [ i \in DOMAIN Matches(Head(left), right, key) |->
             Joined(Head(left), Matches(Head(left), right, key)[i], right_cols) ]
         \o inner_join(Tail(left), right, key, right_cols)

\* left.join(right, on=key, how="left"): every left row once per matching
\* right row, and once with nulls in the right columns when none matches.
RECURSIVE left_join(_, _, _, _)
left_join(left, right, key, right_cols) ==
    IF left = <<>> THEN <<>>
    ELSE ( IF Matches(Head(left), right, key) = <<>>
           THEN << Head(left) @@ [ c \in right_cols |-> Null ] >>
           ELSE [ i \in DOMAIN Matches(Head(left), right, key) |->
                    Joined(Head(left), Matches(Head(left), right, key)[i], right_cols) ] )
         \o left_join(Tail(left), right, key, right_cols)

\* Record keys and contact keys of the integration runs.
RecordKeys == { Null, Some(1), Some(2) }

ContactKeys == { Null, Some(1) }

AdmRows == { [ RECNUM |-> k, PNR |-> Some("P1") ] : k \in RecordKeys }

DiagRows == { [ RECNUM |-> k, C_DIAG |-> Some(DZ000) ] : k \in RecordKeys }

BesRows == { [ RECNUM |-> k, D_AMBDTO |-> Some(1) ] : k \in { Null, Some(1) } }

KontakterRows == { [ DW_EK_KONTAKT |-> k, CPR |-> Some("P2") ] : k \in ContactKeys }

DiagnoserRows == { [ DW_EK_KONTAKT |-> k, diagnosekode |-> Some(DZ000) ] : k \in ContactKeys }

\* Tables of at most n rows.
Tables(rows, n) == UNION { [ 1..m -> rows ] : m \in 0..n }

InitJoin ==
    /\ impl = "generation"
    /\ pc = "j_input"
    /\ base = <<>>
    /\ health_data = <<>>
    /\ scd_data = <<>>
    /\ result = {}
    /\ lpr2 = <<>>
    /\ lpr3 = <<>>
    /\ lpr2_scd = EmptyFrame
    /\ lpr3_scd = EmptyFrame
    /\ final_scd_data = EmptyFrame
    /\ date_col = <<>>
    /\ parsed = <<>>
    /\ HarmonizeIdle
    /\ lpr_adm \in Tables(AdmRows, MaxRows)
    /\ lpr_diag \in Tables(DiagRows, MaxRows)
    /\ lpr_bes \in Tables(BesRows, 1)
    /\ lpr3_kontakter \in Tables(KontakterRows, 1)
    /\ lpr3_diagnoser \in Tables(DiagnoserRows, 1)
    /\ RegisterIdle
    /\ MappingIdle
    /\ MainIdle
    /\ IscedIdle

\* lpr2 = lpr_adm.join(lpr_diag, on="RECNUM", how="left")
JoinAdmDiag ==
    /\ pc = "j_input"
    /\ lpr2' = left_join(lpr_adm, lpr_diag, "RECNUM", { "C_DIAG" })
    /\ pc' = "j_adm_diag"
    /\ UNCHANGED << impl, pipeline_vars, lpr3, lpr2_scd, lpr3_scd, final_scd_data, dates_vars, harmonize_vars, join_vars, register_vars, mapping_vars, main_vars, isced_vars >>

\* lpr2 = lpr2.join(lpr_bes, on="RECNUM", how="left")
JoinBes ==
    /\ pc = "j_adm_diag"
    /\ lpr2' = left_join(lpr2, lpr_bes, "RECNUM", { "D_AMBDTO" })
    /\ pc' = "j_lpr2"
    /\ UNCHANGED << impl, pipeline_vars, lpr3, lpr2_scd, lpr3_scd, final_scd_data, dates_vars, harmonize_vars, join_vars, register_vars, mapping_vars, main_vars, isced_vars >>

\* lpr3 = lpr3_kontakter.join(lpr3_diagnoser, on="DW_EK_KONTAKT", how="left")
JoinKontakterDiagnoser ==
    /\ pc = "j_lpr2"
    /\ lpr3' = left_join(lpr3_kontakter, lpr3_diagnoser, "DW_EK_KONTAKT", { "diagnosekode" })
    /\ pc' = "j_done"
    /\ UNCHANGED << impl, pipeline_vars, lpr2, lpr2_scd, lpr3_scd, final_scd_data, dates_vars, harmonize_vars, join_vars, register_vars, mapping_vars, main_vars, isced_vars >>

NextJoin ==
    \/ JoinAdmDiag
    \/ JoinBes
    \/ JoinKontakterDiagnoser

\* Steps 3 and 4 of identify_severe_chronic_disease: the left joins that
\* integrate the tables of each register generation.
SpecJoin == InitJoin /\ [][NextJoin]_vars

\* ------------------------------------------- process_register_data (builder)
\* File stems of a yearly register and of a monthly register.
Stem2010 == << "2","0","1","0" >>
Stem2011 == << "2","0","1","1" >>
YearStems == { Stem2010, Stem2011 }

MonthStems == { << "2","0","1","0","0","1" >>, << "2","0","1","0","0","2" >> }

\* extract_date_from_filename(stem): the year of the first four digits and,
\* when two more digits follow, the month.
extract_date_from_filename(stem) ==
    IF Len(stem) >= 6
    THEN [ year |-> NumVal(SubSeq(stem, 1, 4)), month |-> NumVal(SubSeq(stem, 5, 6)) ]
    ELSE [ year |-> NumVal(SubSeq(stem, 1, 4)) ]

\* The column sets a period file can have: the identifier A and any of B, C.
FileColumnSets == { { "A" }, { "A", "B" }, { "A", "C" }, { "A", "B", "C" } }

\* The individuals of the rows of a period file, in row order: one row, two
\* rows of one individual, or rows of two individuals.
FileIndividuals == { << "P1" >>, << "P1", "P1" >>, << "P1", "P2" >> }

RegisterFile(stem, cols, ids) == [ stem |-> stem, columns |-> cols, ids |-> ids ]

\* The directories over the given stems: at most one file per stem.
Directories(stems) ==
    { { RegisterFile(s, Val(content[s])[1], Val(content[s])[2]) :
          s \in { x \in stems : content[x] # Null } } :
        content \in [ stems -> { Null } \cup { Some(<< cols, ids >>) :
                                                cols \in FileColumnSets,
                                                ids \in FileIndividuals } ] }

\* The configured allowlists: None, all three columns, or A and B.
Allowlists == { Null, Some({ "A", "B", "C" }), Some({ "A", "B" }) }

\* What an output file written by an earlier run holds.
OldOutput ==
    [ columns |-> { "A" }, rows |-> << [ c \in { "A" } |-> Some("old") ] >>, error |-> "" ]

\* pl.scan_parquet(file): one row per individual of the file; every value
\* names its file, its column and the individual of its row.
scan_parquet(file) ==
    [ columns |-> file.columns,
      rows |-> [ k \in DOMAIN file.ids |->
                   [ c \in file.columns |-> Some(<< file.stem, c, file.ids[k] >>) ] ],
      error |-> "" ]

\* A record of the logger: its level, its message, and the file and the
\* columns the message names.
LogRecord(level, message, file, columns) ==
    [ level |-> level, message |-> message, file |-> file, columns |-> columns ]

\* df.with_columns(pl.lit(v).alias(name))
with_columns_lit(df, name, v) ==
    [ columns |-> df.columns \cup { name },
      rows |-> [ i \in DOMAIN df.rows |->
                   [ c \in df.columns \cup { name } |-> IF c = name THEN Some(v) ELSE df.rows[i][c] ] ],
      error |-> "" ]

\* A variant that tags no row.
tag_nothing(df, date_info) == df

\* The two tagging steps of the loop: a year column and a month column for
\* the keys date_info has.
tag_period(df, date_info) ==
    LET with_year == IF "year" \in DOMAIN date_info
                     THEN with_columns_lit(df, "year", date_info["year"]) ELSE df
    IN IF "month" \in DOMAIN date_info
       THEN with_columns_lit(with_year, "month", date_info["month"]) ELSE with_year

\* columns_to_keep = [col for col in columns_to_keep if col in existing_columns]:
\* the list as the files before left it, filtered by this file's columns.
keep_existing(kept, existing_columns) ==
    IF kept = Null THEN Null ELSE Some(Val(kept) \cap existing_columns)

\* pl.concat(data_frames), how="vertical"
RECURSIVE concat_all(_)
concat_all(frames) ==
    IF Len(frames) = 1 THEN Head(frames)
    ELSE concat(Head(frames), concat_all(Tail(frames)))

InitRegister ==
    /\ impl = "builder"
    /\ pc = "r_start"
    /\ base = <<>>
    /\ health_data = <<>>
    /\ scd_data = <<>>
    /\ result = {}
    /\ lpr2 = <<>>
    /\ lpr3 = <<>>
    /\ lpr2_scd = EmptyFrame
    /\ lpr3_scd = EmptyFrame
    /\ final_scd_data = EmptyFrame
    /\ date_col = <<>>
    /\ parsed = <<>>
    /\ HarmonizeIdle
    /\ JoinIdle
    /\ directory \in Directories(YearStems) \cup Directories(MonthStems)
    /\ listable \in BOOLEAN
    /\ allowlist \in Allowlists
    /\ files = <<>>
    /\ columns_to_keep = allowlist
    /\ scanned = {}
    /\ data_frames = <<>>
    /\ data = NoFrame
    /\ output_file \in { Null, Some(OldOutput) }
    /\ error = ""
    /\ log = <<>>
    /\ MappingIdle
    /\ MainIdle
    /\ IscedIdle

\* A variant that goes on with no file and writes an empty result.
GlobSilent ==
    /\ pc = "r_start"
    /\ \E order \in Orderings(directory) :
          /\ files' = order
          /\ pc' = IF order = <<>> THEN "r_merged" ELSE "r_loop"
    /\ UNCHANGED << impl, pipeline_vars, builder_vars, dates_vars, harmonize_vars, join_vars, directory, listable, allowlist, columns_to_keep, scanned, data_frames, data, output_file, error, log, mapping_vars, main_vars, isced_vars >>

\* files = glob.glob(file_pattern), in any order; with no file the directory
\* is listed for the log, which raises when it cannot be listed, and
\* FileNotFoundError is raised with the pattern.
Glob ==
    /\ pc = "r_start"
    /\ \E order \in Orderings(directory) :
          /\ files' = order
          /\ IF order = <<>>
             THEN /\ error' = IF listable THEN "FileNotFoundError: pattern"
                              ELSE "OSError: directory"
                  /\ log' = << LogRecord("info", "Processing register", Null, {}),
                               LogRecord("info", "Input files path", Null, {}),
                               LogRecord("error", "No parquet files found matching pattern", Null, {}) >>
                             \o IF listable
                                THEN << LogRecord("info", "Directory contents", Null, {}) >>
                                ELSE <<>>
                  /\ pc' = "r_failed"
             ELSE /\ error' = error
                  /\ log' = << LogRecord("info", "Processing register", Null, {}),
                               LogRecord("info", "Input files path", Null, {}),
                               LogRecord("info", "Found parquet files", Null, {}) >>
                  /\ pc' = "r_loop"
    /\ UNCHANGED << impl, pipeline_vars, builder_vars, dates_vars, harmonize_vars, join_vars, directory, listable, allowlist, columns_to_keep, scanned, data_frames, data, output_file, mapping_vars, main_vars, isced_vars >>

\* One pass of `for file in files`: scan, select, tag, append.
ProcessFile ==
    /\ pc = "r_loop"
    /\ Len(data_frames) < Len(files)
    /\ LET file == files[Len(data_frames) + 1]
           df == scan_parquet(file)
           kept == keep_existing(columns_to_keep, df.columns)
           selected == IF kept = Null THEN df ELSE select(df, Val(kept))
       IN /\ columns_to_keep' = kept
          /\ scanned' = scanned \cup { file.stem }
          /\ data_frames' = Append(data_frames,
                                   tag_period(selected, extract_date_from_filename(file.stem)))
          /\ log' = Append(log, LogRecord("info", "Processing", Some(file.stem), {}))
    /\ UNCHANGED << impl, pc, pipeline_vars, builder_vars, dates_vars, harmonize_vars, join_vars, directory, listable, allowlist, files, data, output_file, error, mapping_vars, main_vars, isced_vars >>

\* `if not data_frames: raise ValueError`, then data = pl.concat(data_frames),
\* which raises on frames of differing columns.
ConcatFrames ==
    /\ pc = "r_loop"
    /\ Len(data_frames) = Len(files)
    /\ data' = IF data_frames = <<>> THEN FailedFrame("ValueError") ELSE concat_all(data_frames)
    /\ error' = data'.error
    /\ pc' = IF data'.error # "" THEN "r_failed" ELSE "r_merged"
    /\ log' = IF data_frames = <<>>
              THEN Append(log, LogRecord("error", "No data frames were created", Null, {}))
              ELSE log
    /\ UNCHANGED << impl, pipeline_vars, builder_vars, dates_vars, harmonize_vars, join_vars, directory, listable, allowlist, files, columns_to_keep, scanned, data_frames, output_file, mapping_vars, main_vars, isced_vars >>

\* result.collect().write_parquet(output_file), with no population file.
WriteOutput ==
    /\ pc = "r_merged"
    /\ output_file' = Some(data)
    /\ pc' = "r_done"
    /\ log' = Append(log, LogRecord("info", "Processed and saved", Null, {}))
    /\ UNCHANGED << impl, pipeline_vars, builder_vars, dates_vars, harmonize_vars, join_vars, directory, listable, allowlist, files, columns_to_keep, scanned, data_frames, data, error, mapping_vars, main_vars, isced_vars >>

NextRegister ==
    \/ Glob
    \/ ProcessFile
    \/ ConcatFrames
    \/ WriteOutput

\* process_register_data of cdef_cohort_builder in longitudinal mode.
SpecRegister == InitRegister /\ [][NextRegister]_vars

\* ------------------------------------------------------- MappingService
\* The mappings of the runs: the ISCED mapping and two named mappings.
MappingNames == { "isced", "icd", "region" }

\* The state every run of another component leaves untouched.
OtherComponentsIdle ==
    /\ base = <<>>
    /\ health_data = <<>>
    /\ scd_data = <<>>
    /\ result = {}
    /\ lpr2 = <<>>
    /\ lpr3 = <<>>
    /\ lpr2_scd = EmptyFrame
    /\ lpr3_scd = EmptyFrame
    /\ final_scd_data = EmptyFrame
    /\ date_col = <<>>
    /\ parsed = <<>>
    /\ HarmonizeIdle
    /\ JoinIdle
    /\ RegisterIdle

InitMapping ==
    /\ impl = "service"
    /\ pc = "m_new"
    /\ OtherComponentsIdle
    /\ mapping_files \in SUBSET MappingNames
    /\ config_optional \in SUBSET MappingNames
    /\ isced_map = Null
    /\ mappings = <<>>
    /\ last_call = NoCall
    /\ mapping_log = <<>>
    /\ MainIdle
    /\ IscedIdle

\* The call record and the log of _load_isced_mapping, by the caller's name.
LoadIscedMapping(caller) ==
    IF "isced" \in mapping_files
    THEN /\ isced_map' = Some("isced.json")
         /\ last_call' = [ call |-> caller, name |-> "isced", outcome |-> "loaded" ]
         /\ mapping_log' = Append(mapping_log, [ level |-> "info", message |-> "ISCED mapping loaded successfully" ])
    ELSE /\ isced_map' = isced_map
         /\ last_call' = [ call |-> caller, name |-> "isced", outcome |-> "skipped" ]
         /\ mapping_log' = Append(mapping_log, [ level |-> "warning", message |-> "ISCED mapping file not found" ])

\* MappingService.initialize (the mapping directory exists)
Initialize ==
    /\ pc = "m_new"
    /\ LoadIscedMapping("initialize")
    /\ pc' = "m_ready"
    /\ UNCHANGED << impl, pipeline_vars, builder_vars, dates_vars, harmonize_vars, join_vars, register_vars, mapping_files, config_optional, mappings, main_vars, isced_vars >>

\* MappingService.apply_isced_mapping(df)
ApplyIscedMapping ==
    /\ pc = "m_ready"
    /\ Len(mapping_log) < MaxLog
    /\ IF isced_map = Null
       THEN /\ last_call' = [ call |-> "apply_isced_mapping", name |-> "isced", outcome |-> "unchanged" ]
            /\ mapping_log' = Append(mapping_log, [ level |-> "warning", message |-> "ISCED mapping not loaded - returning original DataFrame" ])
       ELSE /\ last_call' = [ call |-> "apply_isced_mapping", name |-> "isced", outcome |-> "mapped" ]
            /\ mapping_log' = mapping_log
    /\ UNCHANGED << impl, pc, pipeline_vars, builder_vars, dates_vars, harmonize_vars, join_vars, register_vars, mapping_files, config_optional, isced_map, mappings, main_vars, isced_vars >>

\* MappingService.apply_mapping(col, mapping_name), with load_mapping for a
\* name not loaded yet.
ApplyMapping(mapping_name) ==
    /\ pc = "m_ready"
    /\ IF mapping_name \in DOMAIN mappings \/ mapping_name \in mapping_files
       THEN /\ mappings' = IF mapping_name \in DOMAIN mappings THEN mappings
                           ELSE mappings @@ (mapping_name :> "json")
            /\ last_call' = [ call |-> "apply_mapping", name |-> mapping_name, outcome |-> "mapped" ]
       ELSE /\ mappings' = mappings
            /\ last_call' = [ call |-> "apply_mapping", name |-> mapping_name, outcome |-> "FileNotFoundError" ]
    /\ UNCHANGED << impl, pc, pipeline_vars, builder_vars, dates_vars, harmonize_vars, join_vars, register_vars, mapping_files, config_optional, isced_map, mapping_log, main_vars, isced_vars >>

NextMapping ==
    \/ Initialize
    \/ ApplyIscedMapping
    \/ \E mapping_name \in MappingNames \ { "isced" } : ApplyMapping(mapping_name)

\* A MappingService from initialize on, under any sequence of calls.
SpecMapping == InitMapping /\ [][NextMapping]_vars

\* ------------------------------------------------------ main (cdef_cohort)
\* The calls of the try body of main before the tables, in their order;
\* "results" is the check that raises ValueError on an empty result.
TrySteps ==
    << "container.initialize", "register.configure", "population.configure",
       "process_population", "cohort.configure", "analytical_data.configure",
       "table.configure", "pipeline.configure", "run_pipeline", "results",
       "get_final_result" >>

\* The calls of the table block and the write of the final cohort.
TableCalls == { "create_table_one", "save_tables" }

FinalWrite == "write_parquet"

\* The calls that can fail in a run: at most two of them do.
FaultSets ==
    { f \in SUBSET ({ TrySteps[i] : i \in DOMAIN TrySteps } \cup TableCalls \cup { FinalWrite }) :
        Cardinality(f) <= 2 }

InitMain ==
    /\ impl = "service"
    /\ pc = "main_try"
    /\ OtherComponentsIdle
    /\ MappingIdle
    /\ faults \in FaultSets
    /\ step = 1
    /\ pending = Null
    /\ tables_saved = 0
    /\ final_cohort = FALSE
    /\ services_shut_down = FALSE
    /\ outcome = ""
    /\ main_log = <<>>
    /\ IscedIdle

\* The next call of the try body: it returns, or it raises and control
\* passes to the handler of the outer try.
RunStep ==
    /\ pc = "main_try"
    /\ step <= Len(TrySteps)
    /\ IF TrySteps[step] \in faults
       THEN /\ pending' = Some(TrySteps[step])
            /\ pc' = "main_except"
            /\ step' = step
       ELSE /\ pending' = pending
            /\ pc' = IF step = Len(TrySteps) THEN "main_tables" ELSE "main_try"
            /\ step' = step + 1
    /\ UNCHANGED << impl, pipeline_vars, builder_vars, dates_vars, harmonize_vars, join_vars, register_vars, mapping_vars, faults, tables_saved, final_cohort, services_shut_down, outcome, main_log, isced_vars >>

\* A variant of the table block with no handler of its own.
GenerateTablesUncaught ==
    /\ pc = "main_tables"
    /\ IF faults \cap TableCalls # {}
       THEN /\ pending' = Some("tables")
            /\ pc' = "main_except"
            /\ tables_saved' = 0
       ELSE /\ pending' = pending
            /\ pc' = "main_write"
            /\ tables_saved' = 2
    /\ UNCHANGED << impl, pipeline_vars, builder_vars, dates_vars, harmonize_vars, join_vars, register_vars, mapping_vars, faults, step, final_cohort, services_shut_down, outcome, main_log, isced_vars >>

\* The inner try: create and save the unstratified and the stratified
\* tables; an exception of any of the calls is logged and swallowed.
GenerateTables ==
    /\ pc = "main_tables"
    /\ IF faults \cap TableCalls # {}
       THEN /\ tables_saved' = 0
            /\ main_log' = Append(main_log, [ level |-> "error", message |-> "Error generating tables" ])
       ELSE /\ tables_saved' = 2
            /\ main_log' = Append(main_log, [ level |-> "info", message |-> "Tables generated successfully" ])
    /\ pc' = "main_write"
    /\ UNCHANGED << impl, pipeline_vars, builder_vars, dates_vars, harmonize_vars, join_vars, register_vars, mapping_vars, faults, step, pending, final_cohort, services_shut_down, outcome, isced_vars >>

\* container.get_data_service().write_parquet(final_result, final_output_path)
WriteFinalCohort ==
    /\ pc = "main_write"
    /\ IF FinalWrite \in faults
       THEN /\ pending' = Some(FinalWrite)
            /\ final_cohort' = final_cohort
            /\ pc' = "main_except"
       ELSE /\ pending' = pending
            /\ final_cohort' = TRUE
            /\ pc' = "main_finally"
    /\ UNCHANGED << impl, pipeline_vars, builder_vars, dates_vars, harmonize_vars, join_vars, register_vars, mapping_vars, faults, step, tables_saved, services_shut_down, outcome, main_log, isced_vars >>

\* except Exception as e: logger.error(...); raise
ExceptHandler ==
    /\ pc = "main_except"
    /\ main_log' = Append(main_log, [ level |-> "error", message |-> "Error during processing" ])
    /\ pc' = "main_finally"
    /\ UNCHANGED << impl, pipeline_vars, builder_vars, dates_vars, harmonize_vars, join_vars, register_vars, mapping_vars, faults, step, pending, tables_saved, final_cohort, services_shut_down, outcome, isced_vars >>

\* finally: container.shutdown(); then the pending exception reaches the
\* caller, or main returns final_result.
Finally ==
    /\ pc = "main_finally"
    /\ services_shut_down' = TRUE
    /\ main_log' = Append(main_log, [ level |-> "info", message |-> "Services shut down" ])
    /\ outcome' = IF pending # Null THEN "raised" ELSE "returned"
    /\ pc' = "main_exit"
    /\ UNCHANGED << impl, pipeline_vars, builder_vars, dates_vars, harmonize_vars, join_vars, register_vars, mapping_vars, faults, step, pending, tables_saved, final_cohort, isced_vars >>

NextMain ==
    \/ RunStep
    \/ GenerateTables
    \/ WriteFinalCohort
    \/ ExceptHandler
    \/ Finally

\* main of cdef_cohort from the outer try on.
SpecMain == InitMain /\ [][NextMain]_vars

\* ------------------------------------------------------- read_isced_data
\* The education codes and the levels of the mapping files of the runs.
EducationCodes == { "10", "20" }

EducationLevels == { "1", "2" }

\* The contents a mapping file can have: levels by code, for one code or more.
MappingSources ==
    UNION { [ codes -> EducationLevels ] : codes \in (SUBSET EducationCodes) \ { {} } }

\* The table read_isced_data derives from the mapping: one row per entry,
\* both columns as strings, duplicates removed.
isced_final(isced_mapping) ==
    { [ HFAUDD |-> key, EDU_LVL |-> isced_mapping[key] ] : key \in DOMAIN isced_mapping }

InitIsced ==
    /\ impl = "builder"
    /\ pc = "i_ready"
    /\ OtherComponentsIdle
    /\ MappingIdle
    /\ MainIdle
    /\ isced_mapping_file \in MappingSources
    /\ isced_file = Null
    /\ isced_data = Null

\* read_isced_data(): the parquet file when it exists; otherwise the table
\* derived from the mapping file, which is written to the parquet file.
ReadIscedData ==
    /\ pc = "i_ready"
    /\ IF isced_file # Null
       THEN /\ isced_data' = isced_file
            /\ isced_file' = isced_file
       ELSE /\ isced_file' = Some(isced_final(isced_mapping_file))
            /\ isced_data' = Some(isced_final(isced_mapping_file))
    /\ pc' = "i_read"
    /\ UNCHANGED << impl, pipeline_vars, builder_vars, dates_vars, harmonize_vars, join_vars, register_vars, mapping_vars, main_vars, isced_mapping_file >>

\* Between two pipeline runs the mapping file is replaced by a new release.
NewMappingRelease ==
    /\ pc = "i_read"
    /\ \E source \in MappingSources \ { isced_mapping_file } : isced_mapping_file' = source
    /\ isced_data' = Null
    /\ pc' = "i_ready"
    /\ UNCHANGED << impl, pipeline_vars, builder_vars, dates_vars, harmonize_vars, join_vars, register_vars, mapping_vars, main_vars, isced_file >>

NextIsced ==
    \/ ReadIscedData
    \/ NewMappingRelease

\* read_isced_data over successive pipeline runs.
SpecIsced == InitIsced /\ [][NextIsced]_vars

\* ============================================================ properties
\* Reference notions the properties are stated with.
IsPrefix(p, s) == Len(p) <= Len(s) /\ SubSeq(s, 1, Len(p)) = p

\* The code upper-cased, without its leading type character, cut to n characters.
Stripped(code, n) == str_slice(to_uppercase(code), 1, n)

\* The curated chapter/category set of the implementation.
CuratedSet(im) == IF im = "generation" THEN icd_prefixes ELSE scd_codes

\* The documented reading of the chapter/category rule: an entry of the
\* curated set covers every code that starts with it.
CoveredByCuratedSet(im, code) ==
    \E e \in CuratedSet(im) : IsPrefix(e, Stripped(code, 4))

\* The three-character category of a code, its type character 'D' dropped when present.
Category(code) ==
    LET u == to_uppercase(code)
        s == IF Len(u) >= 2 /\ u[1] = "D" /\ IsLetter(u[2]) THEN Tail(u) ELSE u
    IN str_slice(s, 0, 3)

InBandE74E84(code) ==
    /\ Len(Category(code)) = 3
    /\ StrLeq(E74, Category(code))
    /\ StrLeq(Category(code), E84)

\* The per-code predicate as the implementation evaluates it on a non-null code.
CodeMatches(im, code) ==
    \/ /\ im = "generation"
       /\ \/ Stripped(code, 4) \in icd_prefixes
          \/ Stripped(code, 5) \in specific_codes
    \/ /\ im = "service"
       /\ \/ Stripped(code, 4) \in scd_codes
          \/ Stripped(code, 5) \in scd_codes
    \/ StrLeq(E74, Stripped(code, 4)) /\ StrLeq(Stripped(code, 4), E84)
    \/ StrLeq(P941, Stripped(code, 5)) /\ StrLeq(Stripped(code, 5), P949)

ColumnMatches(im, col) == col # Null /\ CodeMatches(im, Val(col))

RowQualifies(im, row) ==
    ColumnMatches(im, row.primary_diagnosis) \/ ColumnMatches(im, row.diagnosis)

RowsOf(df, p) == { i \in DOMAIN df : df[i].patient_id = p }

QualifyingDates(im, df, p) ==
    { Val(df[i].contact_date) :
        i \in { j \in RowsOf(df, p) : RowQualifies(im, df[j]) /\ df[j].contact_date # Null } }

SetMin(S) == CHOOSE m \in S : \A x \in S : m <= x

ExpectedFirstDate(im, df, p) ==
    IF QualifyingDates(im, df, p) = {} THEN Null ELSE Some(SetMin(QualifyingDates(im, df, p)))

PatientRow(p, flag, date) == [ patient_id |-> p, is_scd |-> flag, first_scd_date |-> date ]

\* The patient-level frame either implementation computes from a contact frame.
PatientLevel(im, df) ==
    IF im = "generation" THEN group_by_agg(apply_scd_algorithm(df), "patient_id")
    ELSE group_by_agg(service_row_level(df), "patient_id")

\* C1: a code whose stripped, upper-cased prefix is covered by an entry of the
\* curated chapter/category set is flagged, also when it is longer than the
\* entry ('DC501' through 'C'); scenario 1 yields is_scd = true and the date
\* of the 'DC501' contact.
C1_ChapterPrefixMatches ==
    pc = "done" =>
        /\ \A i \in DOMAIN health_data :
              ( /\ health_data[i].primary_diagnosis # Null
                /\ CoveredByCuratedSet(impl, Val(health_data[i].primary_diagnosis)) )
                  => scd_data[i].is_scd = Some(TRUE)
        /\ health_data = Scenario1
              => result = { PatientRow(Some("P1"), Some(TRUE), Some(2)) }

\* C2: every code whose category lies in E74..E84 is flagged, with or without
\* the leading type character and whatever its sub-code; scenario 2 ('E800',
\* null date) yields is_scd = true and first_scd_date = null.
C2_BandE74E84Matches ==
    pc = "done" =>
        /\ \A i \in DOMAIN health_data :
              ( /\ health_data[i].primary_diagnosis # Null
                /\ InBandE74E84(Val(health_data[i].primary_diagnosis)) )
                  => scd_data[i].is_scd = Some(TRUE)
        /\ health_data = Scenario2
              => result = { PatientRow(Some("P1"), Some(TRUE), Null) }

\* C3: the row-level is_scd is true whenever at least one diagnosis column
\* holds a matching code, whether the other column is non-matching or null.
C3_AnyColumnMatchFlagsRow ==
    pc # "input" =>
        \A i \in DOMAIN health_data :
            RowQualifies(impl, health_data[i]) => scd_data[i].is_scd = Some(TRUE)

C3_Witness ==
    /\ pc = "done"
    /\ \E i \in DOMAIN health_data :
          /\ health_data[i].primary_diagnosis = Null
          /\ ColumnMatches(impl, health_data[i].diagnosis)
          /\ scd_data[i].is_scd = Some(TRUE)

\* C4: in the result of identify_severe_chronic_disease, first_scd_date of
\* every patient is the least contact date of the patient's qualifying rows
\* that have a date, null when there is none, whatever the row order.
C4_FirstDateIsMinimum ==
    (pc = "done" /\ impl = "generation") =>
        \A r \in result :
            r.patient_id # Null =>
                r.first_scd_date = ExpectedFirstDate(impl, health_data, r.patient_id)

\* C5: no patient row has a first_scd_date while its is_scd is false or null,
\* and a non-null first_scd_date is the contact date of a qualifying contact
\* of that patient.
C5_DateImpliesFlagAndSupport ==
    pc = "done" =>
        \A r \in result :
            r.first_scd_date # Null =>
                /\ r.is_scd = Some(TRUE)
                /\ \E i \in RowsOf(health_data, r.patient_id) :
                      /\ RowQualifies(impl, health_data[i])
                      /\ health_data[i].contact_date = r.first_scd_date

C5_Witness ==
    /\ pc = "done"
    /\ impl = "generation"
    /\ \E r \in result : r.first_scd_date # Null
    /\ \E r \in result : r.is_scd # Some(TRUE) /\ r.first_scd_date = Null
    /\ \E i \in DOMAIN health_data :
          ~RowQualifies(impl, health_data[i]) /\ health_data[i].contact_date # Null

\* C6: a patient none of whose contacts qualifies gets is_scd = false, not
\* null, and first_scd_date = null, also when diagnosis columns are null.
C6_NonQualifyingIsFalse ==
    pc = "done" =>
        \A r \in result :
            ( /\ r.patient_id # Null
              /\ \A i \in RowsOf(health_data, r.patient_id) : ~RowQualifies(impl, health_data[i]) )
                => (r.is_scd = Some(FALSE) /\ r.first_scd_date = Null)

KeysOf(frame, id_col) == { r[id_col] : r \in frame.rows }

RowOf(frame, id_col, p) == CHOOSE r \in frame.rows : r[id_col] = p

\* The logical OR of two nullable flags and the least of two nullable dates.
FlagOr(a, b) ==
    IF a = Some(TRUE) \/ b = Some(TRUE) THEN Some(TRUE)
    ELSE IF a = Null THEN b ELSE a

DateMin(a, b) ==
    IF a = Null THEN b
    ELSE IF b = Null THEN a
    ELSE IF Val(a) <= Val(b) THEN a ELSE b

\* C7: once the builder's identify_severe_chronic_disease has ended, a
\* patient of both the LPR2 and the LPR3 SCD result has exactly one row in
\* the final frame, with the OR of the two flags and the least of the two
\* dates, which is the aggregate over the patient's contacts of both
\* generations.
C7_FinalAggregationMergesGenerations ==
    pc \in { "b_done", "b_failed" } =>
        \A p \in KeysOf(lpr2_scd, "PNR") \cap KeysOf(lpr3_scd, "CPR") :
            /\ Cardinality({ r \in final_scd_data.rows : r["PNR"] = p }) = 1
            /\ \A r \in final_scd_data.rows :
                  r["PNR"] = p =>
                      /\ r.is_scd = FlagOr(RowOf(lpr2_scd, "PNR", p).is_scd,
                                           RowOf(lpr3_scd, "CPR", p).is_scd)
                      /\ r.first_scd_date = DateMin(RowOf(lpr2_scd, "PNR", p).first_scd_date,
                                                    RowOf(lpr3_scd, "CPR", p).first_scd_date)
                      /\ \E q \in PatientLevel("service", lpr2 \o lpr3) :
                            /\ q.patient_id = p
                            /\ q.is_scd = r.is_scd
                            /\ q.first_scd_date = r.first_scd_date

\* C8: fanning contact rows out leaves the patient-level frame as it is for
\* the contacts before the fan-out.
C8_FanOutAbsorbed ==
    pc = "done" => result = PatientLevel(impl, base)

C8_Witness ==
    /\ pc = "done"
    /\ Len(health_data) > Len(base)
    /\ \E r \in result : r.is_scd = Some(TRUE) /\ r.first_scd_date # Null
    /\ \E i \in DOMAIN base : ~RowQualifies(impl, base[i])

\* C9: the patient-level frame has no row with a null patient identifier,
\* and contacts with a null identifier change no patient's row.
C9_NoNullPatientRow ==
    pc = "done" =>
        /\ \A r \in result : r.patient_id # Null
        /\ \A r \in result :
              r.patient_id # Null =>
                  r \in PatientLevel(impl, SelectSeq(health_data, LAMBDA row : row.patient_id # Null))

\* The first non-null of two parse results.
FirstNonNull(a, b) == IF a # Null THEN a ELSE b

\* The result the documented order gives for one value: '/'-separated
\* year-first, day-first, month-first, year-first with time, month-first with
\* a two-digit year, DDMMMYYYY, then '-'-separated year-first, day-first,
\* month-first, year-first with time, and the locale's date and time.
FirstPatternInOrder(v) ==
    FirstNonNull(strptime(v, FmtYmdSlash),
    FirstNonNull(strptime(v, FmtDmySlash),
    FirstNonNull(strptime(v, FmtMdySlash),
    FirstNonNull(strptime(v, FmtYmdHmsSlash),
    FirstNonNull(strptime(v, FmtMdyShortSlash),
    FirstNonNull(strptime(v, FmtDdMonYyyy),
    FirstNonNull(strptime(v, FmtYmdDash),
    FirstNonNull(strptime(v, FmtDmyDash),
    FirstNonNull(strptime(v, FmtMdyDash),
    FirstNonNull(strptime(v, FmtYmdHmsDash),
                 strptime(v, FmtLocale)))))))))))

\* C10: parse_dates gives every row the result of the first of the eleven
\* patterns, taken in the documented order, that parses the row's own value,
\* and null when none does; no row's result depends on another row.
C10_FirstPatternInOrderWins ==
    pc = "d_done" =>
        /\ DOMAIN parsed = DOMAIN date_col
        /\ \A i \in DOMAIN date_col : parsed[i] = FirstPatternInOrder(date_col[i])

\* Two rows resolved by different patterns, one of them a string that a later
\* pattern would read as another date.
C10_Witness ==
    /\ pc = "d_done"
    /\ \E i, j \in DOMAIN date_col :
          /\ strptime(date_col[i], FmtDmySlash) # Null
          /\ strptime(date_col[i], FmtMdySlash) # Null
          /\ strptime(date_col[i], FmtMdySlash) # strptime(date_col[i], FmtDmySlash)
          /\ parsed[i] = strptime(date_col[i], FmtDmySlash)
          /\ strptime(date_col[j], FmtDmySlash) = Null
          /\ strptime(date_col[j], FmtYmdDash) # Null
          /\ parsed[j] = strptime(date_col[j], FmtYmdDash)

\* A calendar date value.
Date(y, m, d) == Some([ year |-> y, month |-> m, day |-> d ])

\* The string "01/02/2020".
Ambiguous01022020 == << "0","1","/","0","2","/","2","0","2","0" >>

\* The value ends in '/' and a year written with four digits, the YYYY of
\* the patterns DD/MM/YYYY and MM/DD/YYYY.
FourDigitYear(v) ==
    /\ v # Null
    /\ Len(Val(v)) >= 5
    /\ Val(v)[Len(Val(v)) - 4] = "/"
    /\ \A k \in (Len(Val(v)) - 3)..Len(Val(v)) : IsDigit(Val(v)[k])

\* The value is read by both the day-first and the month-first '/' format.
ParsesDayFirstAndMonthFirst(v) ==
    strptime(v, FmtDmySlash) # Null /\ strptime(v, FmtMdySlash) # Null

SupportedFormats ==
    { FmtYmdSlash, FmtDmySlash, FmtMdySlash, FmtYmdHmsSlash, FmtMdyShortSlash, FmtDdMonYyyy,
      FmtYmdDash, FmtDmyDash, FmtMdyDash, FmtYmdHmsDash, FmtLocale }

\* C12: a value that is a valid date written in one of the eleven formats is
\* parsed to a non-null date, the calendar date it denotes in that format.
C12_ValidStringsParseToDenotedDate ==
    pc = "d_done" =>
        \A i \in DOMAIN date_col :
            \A fmt \in SupportedFormats :
                strptime(date_col[i], fmt) # Null
                    => ( parsed[i] # Null /\ parsed[i] = strptime(date_col[i], fmt) )

\* The string "31/02/2020".
Invalid31022020 == << "3","1","/","0","2","/","2","0","2","0" >>

\* A date of the calendar.
IsCalendarDate(d) ==
    /\ d.month \in 1..12
    /\ d.day \in 1..DaysInMonth(d.year, d.month)

CanonicalNamesOf(cols) ==
    { n \in essential_columns :
        \/ n \in cols
        \/ \E k \in DOMAIN column_mappings :
              column_mappings[k][1] \in cols /\ column_mappings[k][2] = n }

\* C14: the columns of a harmonized frame are exactly the canonical names
\* that exist after renaming: no source name, no other column, and no
\* canonical name that no column of the input maps to; every row has exactly
\* these columns.
C14_HarmonizedColumnsAreCanonical ==
    pc \in { "h_harmonized", "h_combined", "h_concat_failed" } =>
        /\ lpr2_harmonized.columns = CanonicalNamesOf(lpr2.columns)
        /\ lpr3_harmonized.columns = CanonicalNamesOf(lpr3.columns)
        /\ \A i \in DOMAIN lpr2_harmonized.rows :
              DOMAIN lpr2_harmonized.rows[i] = lpr2_harmonized.columns
        /\ \A i \in DOMAIN lpr3_harmonized.rows :
              DOMAIN lpr3_harmonized.rows[i] = lpr3_harmonized.columns

C14_Witness ==
    /\ pc = "h_harmonized"
    /\ "C_TILDIAG" \in lpr2.columns
    /\ "PNR" \in lpr2.columns
    /\ "RECNUM" \notin lpr2.columns
    /\ "patient_id" \in lpr2_harmonized.columns
    /\ "record_id" \notin lpr2_harmonized.columns
    /\ lpr2_harmonized.rows[1]["patient_id"] = Some("PNR")

\* C15: the union of the two harmonized frames succeeds whichever canonical
\* columns each of them has, the combined frame has the columns of both, and
\* the rows of a frame carry null in the columns that frame lacks.
C15_UnionNullFillsMissingColumns ==
    pc \in { "h_combined", "h_concat_failed" } =>
        /\ pc = "h_combined"
        /\ health_data.columns = lpr2_harmonized.columns \cup lpr3_harmonized.columns
        /\ Len(health_data.rows) = Len(lpr2_harmonized.rows) + Len(lpr3_harmonized.rows)
        /\ \A i \in DOMAIN lpr2_harmonized.rows :
              \A c \in health_data.columns \ lpr2_harmonized.columns :
                  health_data.rows[i][c] = Null
        /\ \A i \in DOMAIN lpr3_harmonized.rows :
              \A c \in health_data.columns \ lpr3_harmonized.columns :
                  health_data.rows[Len(lpr2_harmonized.rows) + i][c] = Null

\* The rows of a table that share the key of row l.
SharesKey(l, table, key) == \E k \in DOMAIN table : l[key] # Null /\ table[k][key] = l[key]

\* C16: every admission appears in the integrated LPR2 frame, with a null
\* diagnosis when no diagnosis row has its record key and a null visit date
\* when no visit row has it; every contact appears in the integrated LPR3
\* frame, with a null diagnosis when no diagnosis row has its contact key.
C16_IntegrationIsLeftPreserving ==
    pc = "j_done" =>
        /\ \A i \in DOMAIN lpr_adm :
              \E j \in DOMAIN lpr2 :
                  /\ lpr2[j].RECNUM = lpr_adm[i].RECNUM
                  /\ lpr2[j].PNR = lpr_adm[i].PNR
                  /\ ~SharesKey(lpr_adm[i], lpr_diag, "RECNUM") => lpr2[j].C_DIAG = Null
                  /\ ~SharesKey(lpr_adm[i], lpr_bes, "RECNUM") => lpr2[j].D_AMBDTO = Null
        /\ Len(lpr2) >= Len(lpr_adm)
        /\ \A i \in DOMAIN lpr3_kontakter :
              \E j \in DOMAIN lpr3 :
                  /\ lpr3[j].DW_EK_KONTAKT = lpr3_kontakter[i].DW_EK_KONTAKT
                  /\ lpr3[j].CPR = lpr3_kontakter[i].CPR
                  /\ ~SharesKey(lpr3_kontakter[i], lpr3_diagnoser, "DW_EK_KONTAKT")
                        => lpr3[j].diagnosekode = Null
        /\ Len(lpr3) >= Len(lpr3_kontakter)

C16_Witness ==
    /\ pc = "j_done"
    /\ \E i \in DOMAIN lpr_adm : ~SharesKey(lpr_adm[i], lpr_diag, "RECNUM")
    /\ \E j \in DOMAIN lpr2 : lpr2[j].C_DIAG = Null /\ lpr2[j].D_AMBDTO # Null
    /\ Len(lpr2) > Len(lpr_adm)
    /\ \E i \in DOMAIN lpr3_kontakter : ~SharesKey(lpr3_kontakter[i], lpr3_diagnoser, "DW_EK_KONTAKT")
    /\ \E j \in DOMAIN lpr3 : lpr3[j].diagnosekode = Null

\* The period columns the merger adds to a file's rows.
PeriodColumns == { "year", "month" }

\* C17: in longitudinal mode, with an allowlist configured, the columns kept
\* for every processed file are exactly the configured allowlist intersected
\* with that file's own columns, whatever files came before it and in whatever
\* order the files were enumerated.
C17_KeptColumnsAreAllowlistOfOwnFile ==
    allowlist # Null =>
        \A k \in DOMAIN data_frames :
            data_frames[k].columns \ PeriodColumns = Val(allowlist) \cap files[k].columns

\* The schema-drift register: 2010 has A, B, C and 2011 has A, B; the
\* allowlist is A, B, C.
SchemaDriftScenario ==
    /\ directory = { RegisterFile(Stem2010, { "A", "B", "C" }, << "P1" >>),
                     RegisterFile(Stem2011, { "A", "B" }, << "P1" >>) }
    /\ allowlist = Some({ "A", "B", "C" })

\* C18: merging the schema-drift register succeeds, in either enumeration
\* order, and the merged output has column C: null for the 2011 rows and the
\* source value of C for the 2010 rows.
C18_SchemaDriftNullFillsC ==
    (SchemaDriftScenario /\ Len(data_frames) = Len(files) /\ pc # "r_loop" /\ pc # "r_start") =>
        /\ pc \in { "r_merged", "r_done" }
        /\ "C" \in data.columns
        /\ Len(data.rows) = 2
        /\ \A i \in DOMAIN data.rows :
              /\ data.rows[i]["year"] = Some(2011) => data.rows[i]["C"] = Null
              /\ data.rows[i]["year"] = Some(2010) => data.rows[i]["C"] = Some(<< Stem2010, "C", "P1" >>)

\* The period a file name denotes, written out per stem: the year, and the
\* month of a monthly file.
PeriodOfStem(stem) ==
    CASE stem = Stem2010 -> [ year |-> 2010 ]
      [] stem = Stem2011 -> [ year |-> 2011 ]
      [] stem = << "2","0","1","0","0","1" >> -> [ year |-> 2010, month |-> 1 ]
      [] stem = << "2","0","1","0","0","2" >> -> [ year |-> 2010, month |-> 2 ]

\* The stem of the file a merged row was read from, kept in its A value.
SourceStem(row) == Val(row["A"])[1]

\* Every row of df carries the period of the file it was read from.
RowsCarryOwnPeriod(df) ==
    \A i \in DOMAIN df.rows :
        \A tag \in DOMAIN PeriodOfStem(SourceStem(df.rows[i])) :
            /\ tag \in df.columns
            /\ df.rows[i][tag] = Some(PeriodOfStem(SourceStem(df.rows[i]))[tag])

FailedBeforeReading ==
    /\ pc = "r_failed"
    /\ scanned = {}
    /\ data_frames = <<>>
    /\ data = NoFrame
    /\ output_file \in { Null, Some(OldOutput) }

\* C20 as stated: when no file matches the pattern the run fails with the
\* FileNotFoundError that names the pattern, before reading any data and
\* without creating or overwriting the output file.
C20_NoFileRaisesPatternError ==
    (directory = {} /\ pc # "r_start") =>
        /\ FailedBeforeReading
        /\ error = "FileNotFoundError: pattern"

\* C20 amended: when no file matches the pattern the run fails before reading
\* any data and without creating or overwriting the output file; the error is
\* the FileNotFoundError that names the pattern when the parent directory can
\* be listed, and the error of listing it otherwise.
C20_NoFileIsFatalBeforeReading ==
    (directory = {} /\ pc # "r_start") =>
        /\ FailedBeforeReading
        /\ error = IF listable THEN "FileNotFoundError: pattern" ELSE "OSError: directory"

\* C20 witness: a run over a directory with no matching file, with an output
\* file of an earlier run in place, has failed naming the pattern.
C20_Witness ==
    /\ directory = {}
    /\ pc = "r_failed"
    /\ error = "FileNotFoundError: pattern"
    /\ output_file = Some(OldOutput)

\* C26: the row-level first_scd_date of apply_scd_algorithm is the row's own
\* contact date when the row's is_scd is true and null otherwise, whatever
\* the other rows of the patient hold.
C26_RowLevelDateIsOwnContactDate ==
    (pc = "classified" /\ impl = "generation") =>
        \A i \in DOMAIN scd_data :
            scd_data[i].first_scd_date =
                IF scd_data[i].is_scd = Some(TRUE) THEN health_data[i].contact_date ELSE Null

\* The patient-level row the row-level flags and the contact dates of patient
\* p call for: the flag is true when some row flag is true, else false when
\* some row flag is false, else null; the date is the least contact date of
\* the rows flagged true that have a date.
AggregateOfRowLevel(p) ==
    LET rows == RowsOf(health_data, p)
        flags == { scd_data[i].is_scd : i \in rows }
        dates == { Val(health_data[i].contact_date) :
                     i \in { j \in rows : /\ scd_data[j].is_scd = Some(TRUE)
                                          /\ health_data[j].contact_date # Null } }
    IN PatientRow(p,
                  IF Some(TRUE) \in flags THEN Some(TRUE)
                  ELSE IF Some(FALSE) \in flags THEN Some(FALSE) ELSE Null,
                  IF dates = {} THEN Null ELSE Some(SetMin(dates)))

\* C27: CohortService._apply_scd_algorithm returns exactly one row per
\* distinct patient id of its input, whose is_scd is the OR of the patient's
\* row-level flags and whose first_scd_date is the least date of the
\* patient's qualifying rows that have one (null when there is none),
\* whatever the order of the rows.
C27_ServiceAggregatesPerPatient ==
    (pc = "done" /\ impl = "service") =>
        /\ result = { AggregateOfRowLevel(p) : p \in GroupKeys(health_data, "patient_id") }
        /\ Cardinality(result) = Cardinality(GroupKeys(health_data, "patient_id"))

\* C27 witness: the service has aggregated a patient with two qualifying
\* contacts whose later date comes first.
C27_Witness ==
    /\ pc = "done"
    /\ impl = "service"
    /\ Cardinality(result) = 1
    /\ \E p \in GroupKeys(health_data, "patient_id") :
          \E i, j \in RowsOf(health_data, p) :
              /\ i < j
              /\ scd_data[i].is_scd = Some(TRUE)
              /\ scd_data[j].is_scd = Some(TRUE)
              /\ health_data[i].contact_date # Null
              /\ health_data[j].contact_date # Null
              /\ Val(health_data[j].contact_date) < Val(health_data[i].contact_date)

\* C28: when the LPR2 and the LPR3 SCD results are unioned, the LPR3 result
\* carries the patient identifier under PNR only, CPR being gone, and the two
\* frames have the same columns.
C28_IdentifierNormalizedBeforeUnion ==
    pc = "b_renamed" =>
        /\ "PNR" \in lpr3_scd.columns
        /\ "CPR" \notin lpr3_scd.columns
        /\ lpr3_scd.columns = lpr2_scd.columns

\* C29: the three implementations of the SCD predicate agree on every
\* diagnosis code: the legacy-keyed apply_scd_algorithm, the canonical-keyed
\* apply_scd_algorithm and CohortService._apply_scd_algorithm flag the same
\* codes.
C29_ImplementationsAgreeOnEveryCode ==
    \A i \in DOMAIN health_data :
        \A k \in DOMAIN diagnosis_cols(health_data[i]) :
            LET code == diagnosis_cols(health_data[i])[k]
            IN /\ (legacy_column_is_scd(code) = Some(TRUE)) <=> (column_is_scd(code) = Some(TRUE))
               /\ (column_is_scd(code) = Some(TRUE)) <=> (scd_condition(code) = Some(TRUE))

\* C30: the harmonizer never fails, whatever mapped source columns the two
\* frames hold, several sources of one canonical name included (D_INDDTO and
\* D_AMBDTO in the integrated LPR2 frame): both harmonized frames are
\* produced, with canonical names only.
C30_HarmonizerNeverFails ==
    pc \in { "h_harmonized", "h_failed", "h_combined", "h_concat_failed" } =>
        /\ pc # "h_failed"
        /\ lpr2_harmonized.error = ""
        /\ lpr3_harmonized.error = ""
        /\ lpr2_harmonized.columns \subseteq essential_columns
        /\ lpr3_harmonized.columns \subseteq essential_columns

\* The individual of a merged row (A is the identifier column) and the
\* period the row is tagged with.
Individual(row) == Val(row["A"])[3]

PeriodOf(df, row) == [ tag \in df.columns \cap PeriodColumns |-> row[tag] ]

\* C21: the merged longitudinal output has zero or one row per individual
\* and period, whatever the register files hold.
C21_OneRowPerIndividualAndPeriod ==
    pc \in { "r_merged", "r_done" } =>
        \A i, j \in DOMAIN data.rows :
            ( /\ Individual(data.rows[i]) = Individual(data.rows[j])
              /\ PeriodOf(data, data.rows[i]) = PeriodOf(data, data.rows[j]) ) => i = j

\* The allowlisted columns the k-th file lacks.
DroppedColumns(k) ==
    IF allowlist = Null THEN {} ELSE Val(allowlist) \ files[k].columns

\* C22: when an allowlisted column is absent from a period's file and is
\* dropped from the rows of that period, the file is processed without an
\* error and the logger receives a record that names the file and the
\* dropped columns.
C22_DropIsLoggedNotFatal ==
    \A k \in DOMAIN data_frames :
        DroppedColumns(k) # {} =>
            /\ data_frames[k].error = ""
            /\ \E r \in DOMAIN log :
                  /\ log[r].file = Some(files[k].stem)
                  /\ DroppedColumns(k) \subseteq log[r].columns

\* The outcomes of a call that went on without its mapping file.
RecoveredOutcomes == { "skipped", "unchanged" }

\* C23: a call that does not find its mapping file goes on (logged, mapping
\* skipped, frame unchanged) only for a mapping the configuration marks
\* optional; for every other mapping it raises, and no mapping is registered
\* under the name.
C23_MissingFileRecoverableOnlyIfOptional ==
    (last_call # NoCall /\ last_call.name \notin mapping_files) =>
        /\ last_call.outcome \in RecoveredOutcomes => last_call.name \in config_optional
        /\ last_call.name \notin config_optional =>
              /\ last_call.outcome = "FileNotFoundError"
              /\ last_call.name \notin DOMAIN mappings

\* The calls of the try body of main that fail in this run.
TryFaults == faults \cap { TrySteps[i] : i \in DOMAIN TrySteps }

\* C24: a failure of the table block is logged there and does not abort the
\* run: the final cohort is written, the services are shut down and main
\* returns; a failure of configuration or of the pipeline reaches the
\* caller, after the services have been shut down and with no final cohort
\* written; main never ends with the services up.
C24_TableFailureIsContained ==
    /\ outcome # "" => services_shut_down
    /\ pc = "main_exit" =>
          /\ (TryFaults = {} /\ faults \cap TableCalls # {} /\ FinalWrite \notin faults) =>
                /\ outcome = "returned"
                /\ final_cohort
                /\ \E r \in DOMAIN main_log : main_log[r].message = "Error generating tables"
          /\ TryFaults # {} =>
                /\ outcome = "raised"
                /\ pending # Null
                /\ Val(pending) \in TryFaults
                /\ ~final_cohort

\* C24 witness: main has returned after a failure of the table block, with
\* the final cohort written and the services shut down.
C24_Witness ==
    /\ pc = "main_exit"
    /\ faults = { "save_tables" }
    /\ outcome = "returned"
    /\ final_cohort
    /\ services_shut_down
    /\ tables_saved = 0

\* C25: the ISCED table read_isced_data returns is the table derived from
\* the mapping file as it is at the call, whether or not an ISCED parquet
\* file of an earlier run exists.
C25_IscedTableIsRecomputed ==
    pc = "i_read" => isced_data = Some(isced_final(isced_mapping_file))
====
